---- MODULE Spec2Model ----
(***************************************************************************)
(* Verification model of the Cane/Valen kernel core:                       *)
(*   - the physical frame allocator          (src/mm/pmm.c)                *)
(*   - the task runqueue and the scheduler   (src/unnamed/part_008)        *)
(* TLC integers are 32 bit wide; every address and counter of the model    *)
(* stays far below 2^31, so the uint64_t arithmetic of the code never      *)
(* wraps inside the explored bounds.                                       *)
(***************************************************************************)
EXTENDS Integers, Sequences, FiniteSets, TLC

(***************************************************************************)
(* Program constants                                                       *)
(***************************************************************************)
\* frame size: the literal 4096 of pmm.c
PAGE_SIZE == 4096

\* the low-memory reservation 0x200000 of pmm_alloc_page
LOW_MEM_LIMIT == 2097152

\* the value 0xFF pmm_init fills the bitmap with
BYTE_FULL == 255

\* the null pointer / failure value
NULL == 0

\* task_state_t: TASK_RUNNING and TASK_ZOMBIE
TASK_RUNNING == 0
TASK_ZOMBIE == 3
TASK_INTERRUPTIBLE == 1
TASK_UNINTERRUPTIBLE == 2
TASK_STOPPED == 4
TASK_TRACED == 5

\* the priority task_create stores in prio, static_prio and normal_prio
DEFAULT_PRIO == 120

\* the tick count at which scheduler_tick calls schedule()
TICK_THRESHOLD == 25

\* return codes of kill_task: not found, and target is the current task
KILL_NOT_FOUND == -1
KILL_SELF == -2

(***************************************************************************)
(* Bounds of the model                                                     *)
(***************************************************************************)
\* largest number of frames above the 2 MiB reservation in a modelled RAM
MaxHigh == 3

\* number of heap slots that can hold a TCB (task_t) at the same time
MaxTasks == 3

\* largest PID task_create hands out in the model
MaxPid == 4

\* schedule() calls that are counted exactly in a creation/scheduling run
MaxSched == 6

\* first frame index at or above the reservation (0x200000 / 4096 = 512)
LowFrames == LOW_MEM_LIMIT \div PAGE_SIZE

\* the 16 MiB RAM of the allocation scenario
ScenarioSize == 16 * 1024 * 1024

\* RAM sizes handed to pmm_init: empty, all below the reservation, a few
\* frames above it (multiples of 8 and not), and a size that is not a
\* multiple of the frame size
Sizes ==
    {0, 8 * PAGE_SIZE, ScenarioSize}
    \cup {(LowFrames + k) * PAGE_SIZE : k \in 0..MaxHigh}
    \cup {(LowFrames + MaxHigh) * PAGE_SIZE + 100}

\* frame indices the callers name: two low frames, the frames around the
\* reservation, and one past the largest RAM (out of range / padding bit)
AddrFrames == {0, LowFrames - 1} \cup {LowFrames + k : k \in 0..MaxHigh}

\* physical addresses passed to mark_free / mark_used / free_page; one of
\* them is not frame aligned
Addrs == {f * PAGE_SIZE : f \in AddrFrames} \cup {LOW_MEM_LIMIT + 5}

(***************************************************************************)
(* State                                                                   *)
(***************************************************************************)
VARIABLES
    bitmap,        \* pmm.c: static uint8_t *bitmap, as byte index -> 0..255
    bitmap_size,   \* pmm.c: static uint64_t bitmap_size
    total_pages,   \* pmm.c: static uint64_t total_pages
    used_pages,    \* pmm.c: static uint64_t used_pages
    pmm_lock,      \* pmm.c: static spinlock_t pmm_lock (0 = free)
    pmm_call,      \* the allocator call made last: its argument, its return
                   \* value, the allocator state it was made in (pre; not
                   \* recorded for pmm_init) and, when it is a free_page of
                   \* the value returned by the pmm_alloc_page call right
                   \* before it (rt), the state before that call (pre2)
    freed,         \* frames named by mark_free/free_page since pmm_init and
                   \* neither allocated nor marked used since
    pmm_ctx,       \* per execution context: the allocator call it is in
                   \* (pc, op, arg) and the value its last call returned
    current_task,  \* task.c: task_t *current_task (0 = NULL)
    runqueue,      \* task.c: static task_t *runqueue
    next_pid,      \* task.c: static pid_t next_pid
    tasks,         \* the task_t records, by heap slot of the TCB
    heap_tcb,      \* heap slots holding a TCB that is allocated
    heap_stack,    \* TCB slots whose stack is allocated
    counter,       \* task.c: static int counter of scheduler_tick
    halted,        \* TRUE once a null link was dereferenced and the fault
                   \* stopped the machine
    sched_call,    \* the scheduler call made last, argument and return value
    scen,          \* the run since scheduler_init, as long as it is task
                   \* creations followed by schedule() calls only: the
                   \* created tasks in creation order and the number of
                   \* schedule() calls
    cpu,           \* the processor: rip, rsp and the callee-saved registers
    ctx,           \* task->context of every TCB slot, by byte offset
    mem,           \* the stack words written so far, by address
    stack,         \* task->stack of every TCB slot (0 = none)
    hist,          \* per TCB slot: whether the task was switched into, and
                   \* rsp and registers at its last switch_to call
    sync,          \* the scheduler call in progress in task context: the
                   \* operation, the statement it is at, its locals
    irq_on,        \* the interrupt flag of the processor
    page_tables,   \* the page tables, by physical address of the table:
                   \* entry index -> entry
    vmm_call       \* the virtual memory call made last: its arguments, its
                   \* return value and the translation of every page
                   \* before it (pre)

pmmVars == <<bitmap, bitmap_size, total_pages, used_pages, pmm_lock,
             pmm_call, freed, pmm_ctx>>

schedVars == <<current_task, runqueue, next_pid, tasks, heap_tcb, heap_stack,
               counter, halted, sched_call, scen>>

cpuVars == <<cpu, ctx, mem, stack, hist>>

irqVars == <<sync, irq_on>>

vmmVars == <<page_tables, vmm_call>>

vars == <<bitmap, bitmap_size, total_pages, used_pages, pmm_lock,
          pmm_call, freed, pmm_ctx,
          current_task, runqueue, next_pid, tasks, heap_tcb, heap_stack,
          counter, halted, sched_call, scen,
          cpu, ctx, mem, stack, hist, sync, irq_on,
          page_tables, vmm_call>>

(***************************************************************************)
(* Bit operations on one bitmap byte                                       *)
(***************************************************************************)
\* 1 << j
Shl1(j) == 2 ^ j

\* b & (1 << j), as a truth value
TestBit(b, j) == (b \div Shl1(j)) % 2 = 1

\* b |= (1 << j)
OrBit(b, j) == IF TestBit(b, j) THEN b ELSE b + Shl1(j)

\* b &= ~(1 << j)
AndNotBit(b, j) == IF TestBit(b, j) THEN b - Shl1(j) ELSE b

(***************************************************************************)
(* The allocator state as one value, and the bodies of the operations      *)
(***************************************************************************)
PmmState == [bitmap |-> bitmap, bitmap_size |-> bitmap_size,
             total_pages |-> total_pages, used_pages |-> used_pages]

\* pmm_init clearing the bitmap instead of filling it with 0xFF
pmm_init_body_zero_fill(size) ==
    LET tp == size \div PAGE_SIZE
        bs == (tp + 7) \div 8
    IN  [bitmap      |-> [i \in 0..(bs - 1) |-> 0],
         bitmap_size |-> bs,
         total_pages |-> tp,
         used_pages  |-> tp]

\* pmm_init(start, size)
pmm_init_body(size) ==
    LET tp == size \div PAGE_SIZE
        bs == (tp + 7) \div 8
    IN  [bitmap      |-> [i \in 0..(bs - 1) |-> BYTE_FULL],
         bitmap_size |-> bs,
         total_pages |-> tp,
         used_pages  |-> tp]

\* pmm_mark_free testing the block against the bits of the bitmap instead of
\* total_pages
pmm_mark_free_body_no_bounds(s, addr) ==
    LET block == addr \div PAGE_SIZE
    IN  IF block < 8 * s.bitmap_size
        THEN IF TestBit(s.bitmap[block \div 8], block % 8)
             THEN [s EXCEPT
                     !.bitmap[block \div 8] = AndNotBit(@, block % 8),
                     !.used_pages = IF @ > 0 THEN @ - 1 ELSE @]
             ELSE s
        ELSE s

\* pmm_mark_free decrementing used_pages without testing the bit
pmm_mark_free_body_no_test(s, addr) ==
    LET block == addr \div PAGE_SIZE
    IN  IF block < s.total_pages
        THEN [s EXCEPT
                !.bitmap[block \div 8] = AndNotBit(@, block % 8),
                !.used_pages = IF @ > 0 THEN @ - 1 ELSE @]
        ELSE s

\* pmm_mark_free(addr), between acquire and release
pmm_mark_free_body(s, addr) ==
    LET block == addr \div PAGE_SIZE
    IN  IF block < s.total_pages
        THEN IF TestBit(s.bitmap[block \div 8], block % 8)
             THEN [s EXCEPT
                     !.bitmap[block \div 8] = AndNotBit(@, block % 8),
                     !.used_pages = IF @ > 0 THEN @ - 1 ELSE @]
             ELSE s
        ELSE s

\* pmm_mark_used incrementing used_pages without testing the bit
pmm_mark_used_body_no_test(s, addr) ==
    LET block == addr \div PAGE_SIZE
    IN  IF block < s.total_pages
        THEN [s EXCEPT
                !.bitmap[block \div 8] = OrBit(@, block % 8),
                !.used_pages = @ + 1]
        ELSE s

\* pmm_mark_used(addr), between acquire and release
pmm_mark_used_body(s, addr) ==
    LET block == addr \div PAGE_SIZE
    IN  IF block < s.total_pages
        THEN IF ~TestBit(s.bitmap[block \div 8], block % 8)
             THEN [s EXCEPT
                     !.bitmap[block \div 8] = OrBit(@, block % 8),
                     !.used_pages = @ + 1]
             ELSE s
        ELSE s

\* the low-memory test comparing with <= against the last reserved frame's
\* end, one frame short of the reservation
alloc_skips_one_short(addr) == addr < LOW_MEM_LIMIT - PAGE_SIZE

\* the low-memory test left out
alloc_skips_never(addr) == FALSE

\* the low-memory test of pmm_alloc_page: TRUE when the frame is skipped
alloc_skips(addr) == addr < LOW_MEM_LIMIT

\* the two nested loops of pmm_alloc_page: the bits <<i, j>> at which the
\* inner test succeeds and the low-memory test does not skip the frame
alloc_hits(s) ==
    UNION {{<<i, j>> : j \in {k \in 0..7 :
                                /\ ~TestBit(s.bitmap[i], k)
                                /\ ~alloc_skips((i * 8 + k) * PAGE_SIZE)}} :
           i \in {b \in 0..(s.bitmap_size - 1) : s.bitmap[b] # BYTE_FULL}}

\* the scan returning the last hit instead of the first
alloc_scan_last(s) ==
    IF alloc_hits(s) = {} THEN <<>>
    ELSE CHOOSE h \in alloc_hits(s) :
            \A g \in alloc_hits(s) : h[1] * 8 + h[2] >= g[1] * 8 + g[2]

\* the loops run i upwards and, within a byte, j upwards, and return at the
\* first hit: the position <<i, j>> the scan stops at, or <<>> when both
\* loops run to their end
alloc_scan(s) ==
    IF alloc_hits(s) = {} THEN <<>>
    ELSE CHOOSE h \in alloc_hits(s) :
            \A g \in alloc_hits(s) : h[1] * 8 + h[2] <= g[1] * 8 + g[2]

\* pmm_alloc_page without the used_pages++
pmm_alloc_page_body_no_count(s) ==
    LET hit == alloc_scan(s)
    IN  IF hit = <<>>
        THEN [st |-> s, ret |-> NULL]
        ELSE [st  |-> [s EXCEPT !.bitmap[hit[1]] = OrBit(@, hit[2])],
              ret |-> (hit[1] * 8 + hit[2]) * PAGE_SIZE]

\* pmm_alloc_page(), between acquire and release: new state and return value
pmm_alloc_page_body(s) ==
    LET hit == alloc_scan(s)
    IN  IF hit = <<>>
        THEN [st |-> s, ret |-> NULL]
        ELSE [st  |-> [s EXCEPT !.bitmap[hit[1]] = OrBit(@, hit[2]),
                                !.used_pages = @ + 1],
              ret |-> (hit[1] * 8 + hit[2]) * PAGE_SIZE]

\* pmm_free_page(addr)
pmm_free_page_body(s, addr) == pmm_mark_free_body(s, addr)

\* the accessors
pmm_get_total_kb(s) == s.total_pages * 4
pmm_get_used_kb(s) == s.used_pages * 4
pmm_get_free_kb(s) ==
    IF s.total_pages > s.used_pages
    THEN (s.total_pages - s.used_pages) * 4 ELSE 0

(***************************************************************************)
(* Allocator operations as atomic calls (one caller, lock free on entry)   *)
(***************************************************************************)
\* the history record of a call whose entry state is not recorded
NoCall(op, arg, s) ==
    [op |-> op, arg |-> arg, ret |-> 0, pre |-> s, rt |-> FALSE, pre2 |-> s]

\* execution contexts that may be inside the allocator at the same time (two
\* tasks, or a task and an interrupt handler); the value is the mark a
\* context leaves in the lock
Contexts == {1, 2}

SetPmm(s) ==
    /\ bitmap' = s.bitmap
    /\ bitmap_size' = s.bitmap_size
    /\ total_pages' = s.total_pages
    /\ used_pages' = s.used_pages

PmmInit ==
    /\ bitmap = << >>
    /\ bitmap_size = 0
    /\ total_pages = 0
    /\ used_pages = 0
    /\ pmm_lock = 0
    /\ pmm_call = NoCall("boot", 0, pmm_init_body(0))
    /\ freed = {}
    /\ pmm_ctx = [c \in Contexts |->
                    [pc |-> "idle", op |-> "none", arg |-> 0, ret |-> 0,
                     base |-> 0, pair |-> "no"]]

pmm_init ==
    \E size \in Sizes :
        /\ SetPmm(pmm_init_body(size))
        /\ pmm_call' = NoCall("init", size, pmm_init_body(size))
        /\ freed' = {}
        /\ UNCHANGED <<pmm_lock, pmm_ctx>>
        /\ UNCHANGED <<vmmVars, schedVars, cpuVars, irqVars>>

pmm_mark_free ==
    \E addr \in Addrs :
        /\ pmm_lock = 0
        /\ SetPmm(pmm_mark_free_body(PmmState, addr))
        /\ pmm_call' = [op |-> "mark_free", arg |-> addr, ret |-> 0,
                        pre |-> PmmState,
                        rt |-> FALSE, pre2 |-> PmmState]
        /\ freed' = freed \cup {addr \div PAGE_SIZE}
        /\ UNCHANGED <<pmm_lock, pmm_ctx>>
        /\ UNCHANGED <<vmmVars, schedVars, cpuVars, irqVars>>

pmm_mark_used ==
    \E addr \in Addrs :
        /\ pmm_lock = 0
        /\ SetPmm(pmm_mark_used_body(PmmState, addr))
        /\ pmm_call' = [op |-> "mark_used", arg |-> addr, ret |-> 0,
                        pre |-> PmmState,
                        rt |-> FALSE, pre2 |-> PmmState]
        /\ freed' = freed \ {addr \div PAGE_SIZE}
        /\ UNCHANGED <<pmm_lock, pmm_ctx>>
        /\ UNCHANGED <<vmmVars, schedVars, cpuVars, irqVars>>

pmm_alloc_page ==
    LET r == pmm_alloc_page_body(PmmState)
    IN  /\ pmm_lock = 0
        /\ SetPmm(r.st)
        /\ pmm_call' = [op |-> "alloc", arg |-> 0, ret |-> r.ret,
                        pre |-> PmmState,
                        rt |-> FALSE, pre2 |-> PmmState]
        /\ freed' = IF r.ret = NULL THEN freed
                    ELSE freed \ {r.ret \div PAGE_SIZE}
        /\ UNCHANGED <<pmm_lock, pmm_ctx>>
        /\ UNCHANGED <<vmmVars, schedVars, cpuVars, irqVars>>

pmm_free_page ==
    \E addr \in Addrs \cup {pmm_call.ret} :
        /\ pmm_lock = 0
        /\ SetPmm(pmm_free_page_body(PmmState, addr))
        /\ pmm_call' = [op |-> "free_page", arg |-> addr, ret |-> 0,
                        pre |-> PmmState,
                        rt |-> pmm_call.op = "alloc" /\ addr = pmm_call.ret,
                        pre2 |-> IF pmm_call.op = "alloc"
                                    /\ addr = pmm_call.ret
                                 THEN pmm_call.pre ELSE PmmState]
        /\ freed' = freed \cup {addr \div PAGE_SIZE}
        /\ UNCHANGED <<pmm_lock, pmm_ctx>>
        /\ UNCHANGED <<vmmVars, schedVars, cpuVars, irqVars>>

PmmNext ==
    \/ pmm_init
    \/ pmm_mark_free
    \/ pmm_mark_used
    \/ pmm_alloc_page
    \/ pmm_free_page

(***************************************************************************)
(* Allocator operations step by step, under pmm_lock, from two contexts    *)
(***************************************************************************)
\* RAM size and addresses used by the interleaved calls
LockSizes == {(LowFrames + 2) * PAGE_SIZE}
LockAddrs == {0, LOW_MEM_LIMIT, LOW_MEM_LIMIT + PAGE_SIZE}

\* the calls a context can make
LockCalls ==
    {[op |-> "init", arg |-> size] : size \in LockSizes}
    \cup {[op |-> "alloc", arg |-> 0]}
    \cup {[op |-> o, arg |-> a] :
            o \in {"mark_free", "mark_used", "free_page"}, a \in LockAddrs}

\* spinlock_acquire(&pmm_lock): the context waits until the lock is free
\* and takes it
spinlock_acquire(c) ==
    /\ pmm_lock = 0
    /\ pmm_lock' = c

\* spinlock_release(&pmm_lock)
spinlock_release(c) == pmm_lock' = 0

\* pmm_alloc_page starting without spinlock_acquire
pmm_entry_alloc_unlocked(op) ==
    IF op \in {"init", "alloc"} THEN "body" ELSE "acquire"

\* pmm_mark_used starting without spinlock_acquire
pmm_entry_mark_used_unlocked(op) ==
    IF op \in {"init", "mark_used"} THEN "body" ELSE "acquire"

\* the first statement of each operation: pmm_mark_free, pmm_mark_used and
\* pmm_alloc_page (and pmm_free_page through pmm_mark_free) begin with
\* spinlock_acquire, pmm_init begins with its body
pmm_entry(op) == IF op = "init" THEN "body" ELSE "acquire"

\* pmm_alloc_page returning without spinlock_release
pmm_exit_alloc_held(op) ==
    IF op \in {"init", "alloc"} THEN "idle" ELSE "release"

\* what follows the body: spinlock_release, or for pmm_init the return
pmm_exit(op) == IF op = "init" THEN "idle" ELSE "release"

\* the loops of pmm_alloc_page up to the hit: the address of the frame
\* found, or NULL when both loops run to their end
pmm_alloc_scan(s) ==
    LET hit == alloc_scan(s)
    IN  IF hit = <<>> THEN NULL ELSE (hit[1] * 8 + hit[2]) * PAGE_SIZE

\* the two statements of pmm_alloc_page after the hit: the bit of the frame
\* is set and used_pages is incremented
pmm_alloc_commit(s, addr) ==
    [s EXCEPT !.bitmap[(addr \div PAGE_SIZE) \div 8] =
                  OrBit(@, (addr \div PAGE_SIZE) % 8),
              !.used_pages = @ + 1]

\* the other execution context
Other(c) == CHOOSE d \in Contexts : d # c

\* a pmm_alloc_page call of context c has been entered and has not returned
AllocInProgress(c) == pmm_ctx[c].op = "alloc" /\ pmm_ctx[c].pc # "idle"

\* a call is entered.  base and pair are history.  A pmm_alloc_page call
\* entered while the other context is idle is "open" and remembers
\* used_pages; a second pmm_alloc_page call entered by the other context
\* while the first is in progress, with no call of that context in between,
\* forms a pair with it ("yes") and takes over its base
pmm_enter(c) ==
    /\ pmm_ctx[c].pc = "idle"
    /\ \E call \in LockCalls :
        LET d     == Other(c)
            joins == /\ call.op = "alloc"
                     /\ AllocInProgress(d)
                     /\ pmm_ctx[d].pair = "open"
        IN  pmm_ctx' = [pmm_ctx EXCEPT
                ![c] = [pc |-> pmm_entry(call.op), op |-> call.op,
                        arg |-> call.arg, ret |-> 0,
                        base |-> IF joins THEN pmm_ctx[d].base
                                 ELSE IF call.op = "alloc" THEN used_pages
                                 ELSE 0,
                        pair |-> IF joins THEN "yes"
                                 ELSE IF call.op = "alloc"
                                         /\ pmm_ctx[d].pc = "idle"
                                      THEN "open" ELSE "no"],
                ![d].pair = IF ~AllocInProgress(d) THEN @
                            ELSE IF joins THEN "yes" ELSE "no"]
    /\ UNCHANGED <<bitmap, bitmap_size, total_pages, used_pages, pmm_lock,
                   pmm_call, freed>>
    /\ UNCHANGED <<vmmVars, schedVars, cpuVars, irqVars>>

pmm_acquire(c) ==
    /\ pmm_ctx[c].pc = "acquire"
    /\ spinlock_acquire(c)
    /\ pmm_ctx' = [pmm_ctx EXCEPT ![c].pc = "body"]
    /\ UNCHANGED <<bitmap, bitmap_size, total_pages, used_pages,
                   pmm_call, freed>>
    /\ UNCHANGED <<vmmVars, schedVars, cpuVars, irqVars>>

pmm_body(c) ==
    /\ pmm_ctx[c].pc = "body"
    /\ LET op  == pmm_ctx[c].op
           arg == pmm_ctx[c].arg
           r   == CASE op = "init"      -> [st |-> pmm_init_body(arg),
                                           ret |-> 0]
                    [] op = "mark_free" -> [st |-> pmm_mark_free_body(PmmState, arg),
                                           ret |-> 0]
                    [] op = "mark_used" -> [st |-> pmm_mark_used_body(PmmState, arg),
                                           ret |-> 0]
                    [] op = "free_page" -> [st |-> pmm_free_page_body(PmmState, arg),
                                           ret |-> 0]
                    [] op = "alloc"     -> [st |-> PmmState,
                                           ret |-> pmm_alloc_scan(PmmState)]
       IN  /\ SetPmm(r.st)
           /\ pmm_ctx' = [pmm_ctx EXCEPT
                            ![c].pc = IF op = "alloc" /\ r.ret # NULL
                                      THEN "commit" ELSE pmm_exit(op),
                            ![c].ret = r.ret]
    /\ UNCHANGED <<pmm_lock, pmm_call, freed>>
    /\ UNCHANGED <<vmmVars, schedVars, cpuVars, irqVars>>

\* pmm_alloc_page after its scan found a frame: the frame is marked and
\* counted
pmm_commit(c) ==
    /\ pmm_ctx[c].pc = "commit"
    /\ SetPmm(pmm_alloc_commit(PmmState, pmm_ctx[c].ret))
    /\ pmm_ctx' = [pmm_ctx EXCEPT ![c].pc = pmm_exit(pmm_ctx[c].op)]
    /\ UNCHANGED <<pmm_lock, pmm_call, freed>>
    /\ UNCHANGED <<vmmVars, schedVars, cpuVars, irqVars>>

pmm_release(c) ==
    /\ pmm_ctx[c].pc = "release"
    /\ spinlock_release(c)
    /\ pmm_ctx' = [pmm_ctx EXCEPT ![c].pc = "idle"]
    /\ UNCHANGED <<bitmap, bitmap_size, total_pages, used_pages,
                   pmm_call, freed>>
    /\ UNCHANGED <<vmmVars, schedVars, cpuVars, irqVars>>

PmmLockNext ==
    \E c \in Contexts :
        \/ pmm_enter(c)
        \/ pmm_acquire(c)
        \/ pmm_body(c)
        \/ pmm_commit(c)
        \/ pmm_release(c)

(***************************************************************************)
(* Tasks, runqueue and scheduler                                           *)
(***************************************************************************)
\* heap slots of TCBs; a task_t pointer is a slot, NULL is 0
Slots == 1..MaxTasks

\* exit codes passed to task_exit
ExitCodes == {0, 1}

\* PIDs passed to kill_task: negative, zero, issued and never issued
KillPids == (-1)..(MaxPid + 1)

\* memory of a TCB slot that holds no task: zeroed, as after memset; a freed
\* TCB is never read again by the code, its content is kept at this value.
\* Of task_t the model keeps the fields the scheduler reads or the
\* operations change after creation; parent, comm, flags and the stack
\* pointer are written once by task_create and never read.
BlankTask == [pid |-> 0, state |-> TASK_RUNNING, prio |-> 0,
              static_prio |-> 0, normal_prio |-> 0, rt_priority |-> 0,
              next |-> NULL, prev |-> NULL, exit_code |-> 0]

\* the scheduler globals and the TCBs as one value
SchedState == [current_task |-> current_task, runqueue |-> runqueue,
               tasks |-> tasks]

\* add_task_to_runqueue without the final runqueue = task (insertion at the
\* tail)
add_task_to_runqueue_tail(s, task) ==
    IF s.runqueue = NULL
    THEN [s EXCEPT !.runqueue = task,
                   !.tasks[task].next = task,
                   !.tasks[task].prev = task]
    ELSE LET rq == s.runqueue
             t1 == [s.tasks EXCEPT ![task].next = rq]
             t2 == [t1 EXCEPT ![task].prev = t1[rq].prev]
             t3 == [t2 EXCEPT ![t2[rq].prev].next = task]
             t4 == [t3 EXCEPT ![rq].prev = task]
         IN  [s EXCEPT !.tasks = t4]

\* add_task_to_runqueue(task), statement by statement
add_task_to_runqueue(s, task) ==
    IF s.runqueue = NULL
    THEN [s EXCEPT !.runqueue = task,
                   !.tasks[task].next = task,
                   !.tasks[task].prev = task]
    ELSE LET rq == s.runqueue
             t1 == [s.tasks EXCEPT ![task].next = rq]
             t2 == [t1 EXCEPT ![task].prev = t1[rq].prev]
             t3 == [t2 EXCEPT ![t2[rq].prev].next = task]
             t4 == [t3 EXCEPT ![rq].prev = task]
         IN  [s EXCEPT !.tasks = t4, !.runqueue = task]

\* a store through pointer p to field next / prev; a store through NULL
\* lands outside every TCB
StoreNext(ts, p, v) == IF p = NULL THEN ts ELSE [ts EXCEPT ![p].next = v]
StorePrev(ts, p, v) == IF p = NULL THEN ts ELSE [ts EXCEPT ![p].prev = v]

\* remove_task_from_runqueue without task->prev->next = task->next
remove_task_from_runqueue_keep_next(s, task) ==
    IF task = NULL \/ s.runqueue = NULL
    THEN [st |-> s, nullderef |-> FALSE]
    ELSE IF s.tasks[task].next = task
    THEN [st |-> [s EXCEPT !.runqueue = NULL,
                           !.tasks[task].next = NULL,
                           !.tasks[task].prev = NULL],
          nullderef |-> FALSE]
    ELSE LET t0 == s.tasks
             t2 == StorePrev(t0, t0[task].next, t0[task].prev)
             rq == IF s.runqueue = task THEN t2[task].next ELSE s.runqueue
             t3 == [t2 EXCEPT ![task].next = NULL, ![task].prev = NULL]
         IN  [st |-> [s EXCEPT !.tasks = t3, !.runqueue = rq],
              nullderef |-> t0[task].next = NULL]

\* remove_task_from_runqueue without task->next->prev = task->prev
remove_task_from_runqueue_keep_prev(s, task) ==
    IF task = NULL \/ s.runqueue = NULL
    THEN [st |-> s, nullderef |-> FALSE]
    ELSE IF s.tasks[task].next = task
    THEN [st |-> [s EXCEPT !.runqueue = NULL,
                           !.tasks[task].next = NULL,
                           !.tasks[task].prev = NULL],
          nullderef |-> FALSE]
    ELSE LET t0 == s.tasks
             t1 == StoreNext(t0, t0[task].prev, t0[task].next)
             rq == IF s.runqueue = task THEN t1[task].next ELSE s.runqueue
             t3 == [t1 EXCEPT ![task].next = NULL, ![task].prev = NULL]
         IN  [st |-> [s EXCEPT !.tasks = t3, !.runqueue = rq],
              nullderef |-> t0[task].prev = NULL]

\* remove_task_from_runqueue without the reassignment of the head
remove_task_from_runqueue_keep_head(s, task) ==
    IF task = NULL \/ s.runqueue = NULL
    THEN [st |-> s, nullderef |-> FALSE]
    ELSE IF s.tasks[task].next = task
    THEN [st |-> [s EXCEPT !.runqueue = NULL,
                           !.tasks[task].next = NULL,
                           !.tasks[task].prev = NULL],
          nullderef |-> FALSE]
    ELSE LET t0 == s.tasks
             t1 == StoreNext(t0, t0[task].prev, t0[task].next)
             t2 == StorePrev(t1, t1[task].next, t1[task].prev)
             t3 == [t2 EXCEPT ![task].next = NULL, ![task].prev = NULL]
         IN  [st |-> [s EXCEPT !.tasks = t3],
              nullderef |-> t0[task].prev = NULL \/ t1[task].next = NULL]

\* remove_task_from_runqueue(task), statement by statement; nullderef tells
\* that task->prev or task->next was NULL when it was dereferenced
remove_task_from_runqueue(s, task) ==
    IF task = NULL \/ s.runqueue = NULL
    THEN [st |-> s, nullderef |-> FALSE]
    ELSE IF s.tasks[task].next = task
    THEN [st |-> [s EXCEPT !.runqueue = NULL,
                           !.tasks[task].next = NULL,
                           !.tasks[task].prev = NULL],
          nullderef |-> FALSE]
    ELSE LET t0 == s.tasks
             t1 == StoreNext(t0, t0[task].prev, t0[task].next)
             t2 == StorePrev(t1, t1[task].next, t1[task].prev)
             rq == IF s.runqueue = task THEN t2[task].next ELSE s.runqueue
             t3 == [t2 EXCEPT ![task].next = NULL, ![task].prev = NULL]
         IN  [st |-> [s EXCEPT !.tasks = t3, !.runqueue = rq],
              nullderef |-> t0[task].prev = NULL \/ t1[task].next = NULL]

\* schedule() stepping over the successor of the current task
schedule_body_skip(s) ==
    IF s.runqueue = NULL THEN s
    ELSE LET succ == IF s.current_task = NULL
                     THEN s.runqueue
                     ELSE s.tasks[s.current_task].next
             next == IF s.current_task # NULL /\ succ # NULL
                     THEN s.tasks[succ].next
                     ELSE succ
         IN  IF next # NULL /\ next # s.current_task
             THEN [s EXCEPT !.current_task = next]
             ELSE s

\* schedule() following prev instead of next
schedule_body_prev(s) ==
    IF s.runqueue = NULL THEN s
    ELSE LET next == IF s.current_task = NULL
                     THEN s.runqueue
                     ELSE s.tasks[s.current_task].prev
         IN  IF next # NULL /\ next # s.current_task
             THEN [s EXCEPT !.current_task = next]
             ELSE s

\* schedule() selecting the runqueue head whether a task is current or not
schedule_body_head(s) ==
    IF s.runqueue = NULL THEN s
    ELSE LET next == s.runqueue
         IN  IF next # NULL /\ next # s.current_task
             THEN [s EXCEPT !.current_task = next]
             ELSE s

\* schedule() passing over a successor whose prio is below the default
schedule_body_by_prio(s) ==
    IF s.runqueue = NULL THEN s
    ELSE LET succ == IF s.current_task = NULL
                     THEN s.runqueue
                     ELSE s.tasks[s.current_task].next
             next == IF succ # NULL /\ s.tasks[succ].prio < DEFAULT_PRIO
                     THEN s.tasks[succ].next
                     ELSE succ
         IN  IF next # NULL /\ next # s.current_task
             THEN [s EXCEPT !.current_task = next]
             ELSE s

\* schedule(): the selection and the assignment to current_task
schedule_body(s) ==
    IF s.runqueue = NULL THEN s
    ELSE LET next == IF s.current_task = NULL
                     THEN s.runqueue
                     ELSE s.tasks[s.current_task].next
         IN  IF next # NULL /\ next # s.current_task
             THEN [s EXCEPT !.current_task = next]
             ELSE s

\* the walk of find_task_by_pid returning the last task met when no PID
\* matches
RECURSIVE find_walk_last(_, _, _, _)
find_walk_last(s, pid, cur, fuel) ==
    IF fuel = 0 THEN -1
    ELSE IF cur = NULL THEN -1
    ELSE IF s.tasks[cur].pid = pid THEN cur
    ELSE IF s.tasks[cur].next = s.runqueue THEN cur
    ELSE find_walk_last(s, pid, s.tasks[cur].next, fuel - 1)

\* find_task_by_pid(pid): the do-while walk from the runqueue head; fuel
\* bounds the walk, -1 tells that the walk did not come back to the head
RECURSIVE find_walk(_, _, _, _)
find_walk(s, pid, cur, fuel) ==
    IF fuel = 0 THEN -1
    ELSE IF cur = NULL THEN -1
    ELSE IF s.tasks[cur].pid = pid THEN cur
    ELSE IF s.tasks[cur].next = s.runqueue THEN NULL
    ELSE find_walk(s, pid, s.tasks[cur].next, fuel - 1)

\* find_task_by_pid starting the walk at runqueue->next
find_task_by_pid_skip_head(s, pid) ==
    IF s.runqueue = NULL \/ pid <= 0 THEN NULL
    ELSE find_walk(s, pid, s.tasks[s.runqueue].next, MaxTasks + 1)

find_task_by_pid(s, pid) ==
    IF s.runqueue = NULL \/ pid <= 0 THEN NULL
    ELSE find_walk(s, pid, s.runqueue, MaxTasks + 1)

\* task->pid = next_pid : next_pid is left as it was
pid_after_same(pid) == pid

\* task->pid = next_pid++ : the value left in next_pid
pid_after(pid) == pid + 1

\* task->state = TASK_INTERRUPTIBLE in place of TASK_RUNNING
NewTask_interruptible(pid) ==
    [pid |-> pid, state |-> TASK_INTERRUPTIBLE, prio |-> DEFAULT_PRIO,
     static_prio |-> DEFAULT_PRIO, normal_prio |-> DEFAULT_PRIO,
     rt_priority |-> 0,
     next |-> NULL, prev |-> NULL, exit_code |-> 0]

\* the record task_create builds before it links the task
NewTask(pid) ==
    [pid |-> pid, state |-> TASK_RUNNING, prio |-> DEFAULT_PRIO,
     static_prio |-> DEFAULT_PRIO, normal_prio |-> DEFAULT_PRIO,
     rt_priority |-> 0,
     next |-> NULL, prev |-> NULL, exit_code |-> 0]

\* task_create that keeps the TCB allocated when the stack allocation fails
task_create_body_keep_tcb(s, pid, t, stack_ok) ==
    IF t = NULL
    THEN [st |-> s, ret |-> NULL, next_pid |-> pid, tcb |-> {}, stack |-> {}]
    ELSE IF ~stack_ok
    THEN [st |-> [s EXCEPT !.tasks[t] = BlankTask], ret |-> NULL,
          next_pid |-> pid_after(pid), tcb |-> {t}, stack |-> {}]
    ELSE [st |-> add_task_to_runqueue([s EXCEPT !.tasks[t] = NewTask(pid)], t),
          ret |-> t, next_pid |-> pid_after(pid), tcb |-> {t}, stack |-> {t}]

\* task_create(func, name) when malloc returns t for the TCB (NULL: the
\* allocation fails) and the stack allocation succeeds or not: the new
\* scheduler state, the return value, next_pid, and the TCB and the stack the
\* call leaves allocated
task_create_body(s, pid, t, stack_ok) ==
    IF t = NULL
    THEN [st |-> s, ret |-> NULL, next_pid |-> pid, tcb |-> {}, stack |-> {}]
    ELSE IF ~stack_ok
    THEN [st |-> [s EXCEPT !.tasks[t] = BlankTask], ret |-> NULL,
          next_pid |-> pid_after(pid), tcb |-> {}, stack |-> {}]
    ELSE [st |-> add_task_to_runqueue([s EXCEPT !.tasks[t] = NewTask(pid)], t),
          ret |-> t, next_pid |-> pid_after(pid), tcb |-> {t}, stack |-> {t}]

(***************************************************************************)
(* The run since scheduler_init                                            *)
(***************************************************************************)
\* burnt counts the task_create calls since scheduler_init that failed at the
\* stack allocation, until the first task is created
ScenOff == [phase |-> "off", order |-> << >>, n |-> 0, exact |-> FALSE,
            burnt |-> 0]
ScenStart == [phase |-> "create", order |-> << >>, n |-> 0, exact |-> TRUE,
              burnt |-> 0]

\* a task was created
ScenCreate(t) ==
    IF scen.phase = "create"
    THEN [scen EXCEPT !.order = Append(@, t), !.burnt = 0]
    ELSE ScenOff

\* a task_create call failed at the stack allocation
ScenNoStack ==
    IF scen.phase = "create" /\ scen.order = << >>
    THEN [scen EXCEPT !.burnt = @ + 1]
    ELSE scen

\* schedule() or yield() was called; beyond MaxSched the count is kept
\* modulo the number of tasks and is no longer exact
ScenSchedule ==
    IF scen.phase = "off" THEN ScenOff
    ELSE IF scen.n < MaxSched
    THEN [scen EXCEPT !.phase = "sched", !.n = @ + 1]
    ELSE IF Len(scen.order) = 0 \/ Len(scen.order) > MaxSched
    THEN ScenOff
    ELSE [scen EXCEPT !.phase = "sched", !.n = @ + 1 - Len(scen.order),
                      !.exact = FALSE]

(***************************************************************************)
(* Scheduler operations                                                    *)
(***************************************************************************)
SetSched(s) ==
    /\ current_task' = s.current_task
    /\ runqueue' = s.runqueue
    /\ tasks' = s.tasks

SchedInit ==
    /\ current_task = NULL
    /\ runqueue = NULL
    /\ next_pid = 1
    /\ tasks = [t \in Slots |-> BlankTask]
    /\ heap_tcb = {}
    /\ heap_stack = {}
    /\ counter = 0
    /\ halted = FALSE
    /\ sched_call = [op |-> "boot", arg |-> 0, ret |-> 0,
                     killed |-> BlankTask]
    /\ scen = ScenStart

\* scheduler_init(); the kernel calls it during start-up, while no task
\* exists
scheduler_init ==
    /\ ~halted
    /\ heap_tcb = {}
    /\ current_task' = NULL
    /\ runqueue' = NULL
    /\ next_pid' = 1
    /\ sched_call' = [op |-> "scheduler_init", arg |-> 0, ret |-> 0,
                       killed |-> BlankTask]
    /\ scen' = ScenStart
    /\ UNCHANGED <<tasks, heap_tcb, heap_stack, counter, halted>>
    /\ UNCHANGED <<vmmVars, pmmVars, cpuVars, irqVars>>

\* task_create: malloc of the TCB returns NULL
task_create_no_tcb ==
    /\ ~halted
    /\ LET r == task_create_body(SchedState, next_pid, NULL, FALSE)
       IN  /\ SetSched(r.st)
           /\ next_pid' = r.next_pid
           /\ heap_tcb' = heap_tcb \cup r.tcb
           /\ heap_stack' = heap_stack \cup r.stack
           /\ sched_call' = [op |-> "task_create", arg |-> 0, ret |-> r.ret,
                             killed |-> BlankTask]
    /\ UNCHANGED <<counter, halted, scen>>
    /\ UNCHANGED <<vmmVars, pmmVars, cpuVars, irqVars>>

\* task_create: malloc of the stack returns NULL, the TCB is freed again
task_create_no_stack ==
    /\ ~halted
    /\ next_pid <= MaxPid
    /\ \E t \in Slots \ heap_tcb :
        LET r == task_create_body(SchedState, next_pid, t, FALSE)
        IN  /\ SetSched(r.st)
            /\ next_pid' = r.next_pid
            /\ heap_tcb' = heap_tcb \cup r.tcb
            /\ heap_stack' = heap_stack \cup r.stack
            /\ sched_call' = [op |-> "task_create", arg |-> t, ret |-> r.ret,
                              killed |-> BlankTask]
            /\ scen' = ScenNoStack
    /\ UNCHANGED <<counter, halted>>
    /\ UNCHANGED <<vmmVars, pmmVars, cpuVars, irqVars>>

\* task_create: both allocations succeed
task_create_ok ==
    /\ ~halted
    /\ next_pid <= MaxPid
    /\ \E t \in Slots \ heap_tcb :
        LET r == task_create_body(SchedState, next_pid, t, TRUE)
        IN  /\ SetSched(r.st)
            /\ next_pid' = r.next_pid
            /\ heap_tcb' = heap_tcb \cup r.tcb
            /\ heap_stack' = heap_stack \cup r.stack
            /\ sched_call' = [op |-> "task_create", arg |-> t, ret |-> r.ret,
                              killed |-> BlankTask]
            /\ scen' = ScenCreate(t)
    /\ UNCHANGED <<counter, halted>>
    /\ UNCHANGED <<vmmVars, pmmVars, cpuVars, irqVars>>

schedule ==
    /\ ~halted
    /\ SetSched(schedule_body(SchedState))
    /\ sched_call' = [op |-> "schedule", arg |-> 0, ret |-> 0,
                       killed |-> BlankTask]
    /\ scen' = ScenSchedule
    /\ UNCHANGED <<next_pid, heap_tcb, heap_stack, counter, halted>>
    /\ UNCHANGED <<vmmVars, pmmVars, cpuVars, irqVars>>

yield ==
    /\ ~halted
    /\ SetSched(schedule_body(SchedState))
    /\ sched_call' = [op |-> "yield", arg |-> 0, ret |-> 0,
                       killed |-> BlankTask]
    /\ scen' = ScenSchedule
    /\ UNCHANGED <<next_pid, heap_tcb, heap_stack, counter, halted>>
    /\ UNCHANGED <<vmmVars, pmmVars, cpuVars, irqVars>>

\* scheduler_tick() without the test of current_task
scheduler_tick_body_no_test(s, c) ==
    IF c + 1 >= TICK_THRESHOLD
    THEN [st |-> schedule_body(s), counter |-> 0, scheduled |-> TRUE]
    ELSE [st |-> s, counter |-> c + 1, scheduled |-> FALSE]

\* scheduler_tick(): the new scheduler state, the counter, and whether
\* schedule() was called
scheduler_tick_body(s, c) ==
    IF s.current_task = NULL
    THEN [st |-> s, counter |-> c, scheduled |-> FALSE]
    ELSE IF c + 1 >= TICK_THRESHOLD
    THEN [st |-> schedule_body(s), counter |-> 0, scheduled |-> TRUE]
    ELSE [st |-> s, counter |-> c + 1, scheduled |-> FALSE]

scheduler_tick ==
    /\ ~halted
    /\ LET r == scheduler_tick_body(SchedState, counter)
       IN  /\ SetSched(r.st)
           /\ counter' = r.counter
    /\ sched_call' = [op |-> "scheduler_tick", arg |-> 0, ret |-> 0,
                       killed |-> BlankTask]
    /\ scen' = ScenOff
    /\ UNCHANGED <<next_pid, heap_tcb, heap_stack, halted>>
    /\ UNCHANGED <<vmmVars, pmmVars, cpuVars, irqVars>>

\* task_exit(exit_code): st is the state when the call has run to its end,
\* nullderef tells that remove_task_from_runqueue dereferenced a null link,
\* at_fault is the state at that dereference
task_exit_body(s, code) ==
    IF s.current_task = NULL
    THEN [st |-> s, nullderef |-> FALSE, at_fault |-> s]
    ELSE LET s0 == [s EXCEPT !.tasks[s.current_task].state = TASK_ZOMBIE,
                             !.tasks[s.current_task].exit_code = code]
             r  == remove_task_from_runqueue(s0, s.current_task)
         IN  [st |-> schedule_body(r.st), nullderef |-> r.nullderef,
              at_fault |-> s0]

\* task_exit(exit_code); when remove_task_from_runqueue dereferences a null
\* link the access either faults (the machine halts there) or lands in low
\* memory and the call goes on
task_exit ==
    /\ ~halted
    /\ \E code \in ExitCodes :
        LET r == task_exit_body(SchedState, code)
        IN  /\ sched_call' = [op |-> "task_exit", arg |-> code, ret |-> 0,
                              killed |-> BlankTask]
            /\ \/ /\ SetSched(r.st)
                  /\ UNCHANGED halted
               \/ /\ r.nullderef
                  /\ SetSched(r.at_fault)
                  /\ halted' = TRUE
    /\ scen' = ScenOff
    /\ UNCHANGED <<next_pid, heap_tcb, heap_stack, counter>>
    /\ UNCHANGED <<vmmVars, pmmVars, cpuVars, irqVars>>

\* kill_task without the test target == current_task
kill_task_body_self(s, pid) ==
    LET target == IF pid <= 0 THEN NULL ELSE find_task_by_pid(s, pid)
        none   == [st |-> s, ret |-> KILL_NOT_FOUND, free_tcb |-> {},
                   free_stack |-> {}, killed |-> BlankTask, fault |-> FALSE]
    IN  IF pid <= 0 \/ target = NULL
        THEN none
        ELSE IF target = -1
        THEN [none EXCEPT !.fault = TRUE]
        ELSE LET s0 == [s EXCEPT !.tasks[target].state = TASK_ZOMBIE]
                 r  == remove_task_from_runqueue(s0, target)
             IN  [st         |-> [r.st EXCEPT !.tasks[target] = BlankTask],
                  ret        |-> 0,
                  free_tcb   |-> {target},
                  free_stack |-> {target},
                  killed     |-> r.st.tasks[target],
                  fault      |-> FALSE]

\* kill_task without free(target->stack)
kill_task_body_keep_stack(s, pid) ==
    LET target == IF pid <= 0 THEN NULL ELSE find_task_by_pid(s, pid)
        none   == [st |-> s, ret |-> KILL_NOT_FOUND, free_tcb |-> {},
                   free_stack |-> {}, killed |-> BlankTask, fault |-> FALSE]
    IN  IF pid <= 0 \/ target = NULL
        THEN none
        ELSE IF target = -1
        THEN [none EXCEPT !.fault = TRUE]
        ELSE IF target = s.current_task
        THEN [none EXCEPT !.ret = KILL_SELF]
        ELSE LET s0 == [s EXCEPT !.tasks[target].state = TASK_ZOMBIE]
                 r  == remove_task_from_runqueue(s0, target)
             IN  [st         |-> [r.st EXCEPT !.tasks[target] = BlankTask],
                  ret        |-> 0,
                  free_tcb   |-> {target},
                  free_stack |-> {},
                  killed     |-> r.st.tasks[target],
                  fault      |-> FALSE]

\* kill_task(pid): the new scheduler state, the return value, the TCB and
\* the stack handed to free(), and the content of the TCB when it is freed;
\* fault tells that the walk of find_task_by_pid left the runqueue
kill_task_body(s, pid) ==
    LET target == IF pid <= 0 THEN NULL ELSE find_task_by_pid(s, pid)
        none   == [st |-> s, ret |-> KILL_NOT_FOUND, free_tcb |-> {},
                   free_stack |-> {}, killed |-> BlankTask, fault |-> FALSE]
    IN  IF pid <= 0 \/ target = NULL
        THEN none
        ELSE IF target = -1
        THEN [none EXCEPT !.fault = TRUE]
        ELSE IF target = s.current_task
        THEN [none EXCEPT !.ret = KILL_SELF]
        ELSE LET s0 == [s EXCEPT !.tasks[target].state = TASK_ZOMBIE]
                 r  == remove_task_from_runqueue(s0, target)
             IN  [st         |-> [r.st EXCEPT !.tasks[target] = BlankTask],
                  ret        |-> 0,
                  free_tcb   |-> {target},
                  free_stack |-> {target},
                  killed     |-> r.st.tasks[target],
                  fault      |-> FALSE]

\* kill_task(pid)
kill_task ==
    /\ ~halted
    /\ \E pid \in KillPids :
        LET r == kill_task_body(SchedState, pid)
        IN  /\ SetSched(r.st)
            /\ heap_stack' = heap_stack \ r.free_stack
            /\ heap_tcb' = heap_tcb \ r.free_tcb
            /\ sched_call' = [op |-> "kill_task", arg |-> pid, ret |-> r.ret,
                              killed |-> r.killed]
            /\ halted' = r.fault
    /\ scen' = ScenOff
    /\ UNCHANGED <<next_pid, counter>>
    /\ UNCHANGED <<vmmVars, pmmVars, cpuVars, irqVars>>

SchedNext ==
    \/ scheduler_init
    \/ task_create_no_tcb
    \/ task_create_no_stack
    \/ task_create_ok
    \/ schedule
    \/ yield
    \/ scheduler_tick
    \/ task_exit
    \/ kill_task

(***************************************************************************)
(* The processor context: task_context_t, task_create's context set-up,    *)
(* switch_to and the switch of schedule()                                  *)
(***************************************************************************)
STACK_SIZE == 3072
STACK_ALIGN == 16
WORD == 8
CS_KERNEL == 8
SS_KERNEL == 16
EFLAGS_IF == 514

\* the fields of task_context_t in declaration order; each is a uint64_t
Fields == <<"r15", "r14", "r13", "r12", "rbp", "rbx", "r11", "r10", "r9",
            "r8", "rax", "rcx", "rdx", "rsi", "rdi", "orig_rax", "rip",
            "cs", "eflags", "rsp", "ss">>

\* offsetof(task_context_t, f)
OffsetOf(f) == WORD * ((CHOOSE i \in 1..Len(Fields) : Fields[i] = f) - 1)

Offsets == {WORD * (i - 1) : i \in 1..Len(Fields)}

\* the registers switch_to pushes, in the order it pushes them
Pushed == <<"rbp", "rbx", "r12", "r13", "r14", "r15">>

\* the registers switch_to pops, in the order it pops them
Popped == <<"r15", "r14", "r13", "r12", "rbx", "rbp">>

Regs == {Pushed[i] : i \in 1..Len(Pushed)}

\* the offsets switch_to reads and writes for each register, for rsp and for
\* rip
SW_OFF == [r15 |-> 0, r14 |-> 8, r13 |-> 16, r12 |-> 24, rbx |-> 32,
           rbp |-> 40]
SW_RSP == 88
SW_RIP == 136

\* code addresses: the function of the task in TCB slot t, the instruction
\* after the call of switch_to in schedule(), and the start-up code
TEXT == 4000
Entry(t) == TEXT + 16 * t
RET_SCHEDULE == TEXT + 8
BOOT_RIP == TEXT

\* a processor that executes at rip executes code of the kernel
InKernelText(rip) == rip \in {BOOT_RIP, RET_SCHEDULE} \cup {Entry(t) : t \in Slots}

\* the address malloc returns for the stack of slot t: the heap hands out
\* word-aligned blocks, off tells where in its area the block lies
MallocOffsets == {0, 8}
HEAP_AREA == 4096
StackAddr(t, off) == HEAP_AREA * t + off

\* stack_top & ~0xF
AlignDown(addr) == addr - (addr % STACK_ALIGN)

\* the stack top task_create computes for a stack at address stk
StackTop(stk) == AlignDown(stk + STACK_SIZE)

\* task->context after memset and the assignments of task_create
NewContext(stk, func) ==
    [o \in Offsets |->
        IF o = OffsetOf("rsp") THEN StackTop(stk)
        ELSE IF o = OffsetOf("rip") THEN func
        ELSE IF o = OffsetOf("cs") THEN CS_KERNEL
        ELSE IF o = OffsetOf("ss") THEN SS_KERNEL
        ELSE IF o = OffsetOf("eflags") THEN EFLAGS_IF
        ELSE 0]

ZeroContext == [o \in Offsets |-> 0]

\* the processor, the contexts and the stack memory as one value
Machine == [cpu |-> cpu, ctx |-> ctx, mem |-> mem]

\* push v
Push(m, v) ==
    LET a == m.cpu.rsp - WORD
    IN  [m EXCEPT !.cpu.rsp = a,
                  !.mem = [x \in DOMAIN m.mem \cup {a} |->
                             IF x = a THEN v ELSE m.mem[x]]]

\* pop r; a word that was never written holds g
Pop(m, r, g) ==
    LET a == m.cpu.rsp
        v == IF a \in DOMAIN m.mem THEN m.mem[a] ELSE g
    IN  [m EXCEPT !.cpu.rsp = a + WORD, !.cpu.regs[r] = v]

RECURSIVE PushAll(_, _)
PushAll(m, rs) ==
    IF rs = << >> THEN m
    ELSE PushAll(Push(m, m.cpu.regs[Head(rs)]), Tail(rs))

RECURSIVE PopAll(_, _, _)
PopAll(m, rs, g) ==
    IF rs = << >> THEN m
    ELSE PopAll(Pop(m, Head(rs), g), Tail(rs), g)

\* switch_to(prev, next), instruction by instruction: prev and next are the
\* TCB slots whose context is passed, g is the content of stack words never
\* written
switch_to(m, prev, next, g) ==
    LET m1 == PushAll(m, Pushed)
        m2 == IF prev = NULL THEN m1
              ELSE [m1 EXCEPT !.ctx[prev] =
                      [o \in Offsets |->
                         IF o = SW_RSP THEN m1.cpu.rsp
                         ELSE IF \E r \in Regs : SW_OFF[r] = o
                         THEN m1.cpu.regs[CHOOSE r \in Regs : SW_OFF[r] = o]
                         ELSE m1.ctx[prev][o]]]
        m3 == [m2 EXCEPT !.cpu.regs = [r \in Regs |-> m2.ctx[next][SW_OFF[r]]],
                         !.cpu.rsp = m2.ctx[next][SW_RSP]]
        m4 == PopAll(m3, Popped, g)
    IN  [m4 EXCEPT !.cpu.rip = m4.ctx[next][SW_RIP]]

\* the switch of schedule(): switch_to when a task was current, else the
\* stack pointer and the jump are taken from next->context.rsp and
\* next->context.rip
context_switch(m, old, next, g) ==
    IF old # NULL
    THEN switch_to(Push(m, RET_SCHEDULE), old, next, g)
    ELSE [m EXCEPT !.cpu.rsp = m.ctx[next][OffsetOf("rsp")],
                   !.cpu.rip = m.ctx[next][OffsetOf("rip")]]

\* register contents a running task may leave in register r
RegMarks == {1, 2}
RegValue(r, v) == 10 * v + (CHOOSE i \in 1..Len(Pushed) : Pushed[i] = r)

\* how far below its stack top a running task may be when it calls schedule()
Depths == {16, 48}

\* what a stack word never written, or a register after execution outside
\* the kernel code, may hold
Garbage == {0, 77}

\* a stack pointer left by execution outside the kernel code
WILD_RSP == 512

ZeroRegs == [r \in Regs |-> 0]

NoHist == [started |-> FALSE, saved |-> FALSE, rsp |-> 0, regs |-> ZeroRegs]

\* no scheduler call is in progress
NoSync == [op |-> "none", pc |-> 0, arg |-> 0, loc |-> 0]

CpuInit ==
    /\ cpu = [rip |-> BOOT_RIP, rsp |-> HEAP_AREA, regs |-> ZeroRegs]
    /\ ctx = [t \in Slots |-> ZeroContext]
    /\ mem = << >>
    /\ stack = [t \in Slots |-> 0]
    /\ hist = [t \in Slots |-> NoHist]

IrqInit ==
    /\ sync = NoSync
    /\ irq_on = FALSE

SetMachine(m) ==
    /\ cpu' = m.cpu
    /\ ctx' = m.ctx
    /\ mem' = m.mem

\* task_create with both allocations succeeding, context set-up included
cpu_task_create ==
    /\ ~halted
    /\ InKernelText(cpu.rip)
    /\ next_pid <= MaxPid
    /\ \E t \in Slots \ heap_tcb, off \in MallocOffsets :
        LET r == task_create_body(SchedState, next_pid, t, TRUE)
        IN  /\ SetSched(r.st)
            /\ next_pid' = r.next_pid
            /\ heap_tcb' = heap_tcb \cup r.tcb
            /\ heap_stack' = heap_stack \cup r.stack
            /\ stack' = [stack EXCEPT ![t] = StackAddr(t, off)]
            /\ ctx' = [ctx EXCEPT ![t] = NewContext(StackAddr(t, off), Entry(t))]
            /\ hist' = [hist EXCEPT ![t] = NoHist]
            /\ sched_call' = [op |-> "task_create", arg |-> t, ret |-> r.ret,
                              killed |-> BlankTask]
    /\ UNCHANGED <<cpu, mem, counter, halted, scen>>
    /\ UNCHANGED <<vmmVars, pmmVars, irqVars>>

\* schedule(), called by the running code or through yield or the timer:
\* the selection and the switch. Code that runs outside the kernel code has
\* left arbitrary values in the registers by the time schedule() is called.
cpu_schedule ==
    /\ ~halted
    /\ \E g \in Garbage :
        LET s1   == schedule_body(SchedState)
            old  == current_task
            next == s1.current_task
            m0   == IF InKernelText(cpu.rip) THEN Machine
                    ELSE [Machine EXCEPT !.cpu.rsp = WILD_RSP,
                                         !.cpu.regs = [r \in Regs |-> g]]
        IN  /\ SetSched(s1)
            /\ IF next = old
               THEN UNCHANGED <<cpu, ctx, mem, hist>>
               ELSE /\ SetMachine(context_switch(m0, old, next, g))
                    /\ hist' = [t \in Slots |->
                          IF t = next THEN [hist[t] EXCEPT !.started = TRUE]
                          ELSE IF t = old
                          THEN [hist[t] EXCEPT !.saved = TRUE,
                                               !.rsp = m0.cpu.rsp,
                                               !.regs = m0.cpu.regs]
                          ELSE hist[t]]
    /\ sched_call' = [op |-> "schedule", arg |-> 0, ret |-> 0,
                      killed |-> BlankTask]
    /\ UNCHANGED <<next_pid, heap_tcb, heap_stack, counter, halted, scen,
                   stack>>
    /\ UNCHANGED <<vmmVars, pmmVars, irqVars>>

\* task_exit(exit_code) called by the running task, the switch of its
\* schedule() call included; a dereferenced null link either faults or lands
\* in low memory
cpu_task_exit ==
    /\ ~halted
    /\ InKernelText(cpu.rip)
    /\ \E code \in ExitCodes, g \in Garbage :
        LET r == task_exit_body(SchedState, code)
            next == r.st.current_task
        IN  /\ sched_call' = [op |-> "task_exit", arg |-> code, ret |-> 0,
                              killed |-> BlankTask]
            /\ \/ /\ SetSched(r.st)
                  /\ IF next = current_task
                     THEN UNCHANGED <<cpu, ctx, mem, hist>>
                     ELSE /\ SetMachine(context_switch(Machine, current_task,
                                                       next, g))
                          /\ hist' = [t \in Slots |->
                                IF t = next
                                THEN [hist[t] EXCEPT !.started = TRUE]
                                ELSE IF t = current_task
                                THEN [hist[t] EXCEPT !.saved = TRUE,
                                                     !.rsp = cpu.rsp,
                                                     !.regs = cpu.regs]
                                ELSE hist[t]]
                  /\ UNCHANGED halted
               \/ /\ r.nullderef
                  /\ SetSched(r.at_fault)
                  /\ halted' = TRUE
                  /\ UNCHANGED <<cpu, ctx, mem, hist>>
    /\ UNCHANGED <<next_pid, heap_tcb, heap_stack, counter, scen, stack>>
    /\ UNCHANGED <<vmmVars, pmmVars, irqVars>>

\* the current task runs its function: it changes the callee-saved registers
\* and moves its stack pointer within its stack
cpu_run ==
    /\ ~halted
    /\ current_task # NULL
    /\ InKernelText(cpu.rip)
    /\ \E v \in RegMarks, d \in Depths :
        cpu' = [rip  |-> cpu.rip,
                rsp  |-> StackTop(stack[current_task]) - d,
                regs |-> [r \in Regs |-> RegValue(r, v)]]
    /\ sched_call' = [op |-> "run", arg |-> 0, ret |-> 0, killed |-> BlankTask]
    /\ UNCHANGED <<ctx, mem, stack, hist>>
    /\ UNCHANGED <<current_task, runqueue, next_pid, tasks, heap_tcb,
                   heap_stack, counter, halted, scen>>
    /\ UNCHANGED <<vmmVars, pmmVars, irqVars>>

\* execution at an address that holds no kernel code faults
cpu_fault ==
    /\ ~halted
    /\ ~InKernelText(cpu.rip)
    /\ halted' = TRUE
    /\ sched_call' = [op |-> "fault", arg |-> 0, ret |-> 0,
                      killed |-> BlankTask]
    /\ UNCHANGED <<current_task, runqueue, next_pid, tasks, heap_tcb,
                   heap_stack, counter, scen>>
    /\ UNCHANGED <<vmmVars, pmmVars, cpuVars, irqVars>>

SwitchNext ==
    \/ cpu_task_create
    \/ cpu_schedule
    \/ cpu_task_exit
    \/ cpu_run
    \/ cpu_fault

(***************************************************************************)
(* Scheduler calls statement by statement, the timer interrupt and the     *)
(* page fault                                                              *)
(***************************************************************************)
\* the statement a call in progress is at: the line of task.c, 0 when the
\* call has returned
RETURNED == 0

\* statements of schedule() after it has read current_task: the test of
\* next, the assignment to current_task and the switch
ScheduleWindow == {175, 177, 181}

\* statements of add_task_to_runqueue and remove_task_from_runqueue that
\* follow their first update and precede or are their last
MutationWindow == {29, 30, 34, 35, 36, 37, 52, 53, 57, 58}

\* where a call goes on when remove_task_from_runqueue returns
AfterRemove(op) == IF op = "task_exit" THEN 153 ELSE 268

\* one statement of the call in progress y = [op, pc, arg, loc] in state s:
\* arg is the task parameter of add/remove_task_from_runqueue, loc the local
\* next of schedule() (the exit code in task_exit before line 147);
\* nullderef tells that the statement stores through a null link
Statement(s, y) ==
    LET task == y.arg
        ts   == s.tasks
        rq   == s.runqueue
        to(st, pc, loc, nd) == [st |-> st, pc |-> pc, loc |-> loc,
                                nullderef |-> nd]
    IN  CASE y.pc = 27 -> to(s, IF rq = NULL THEN 28 ELSE 33, 0, FALSE)
          [] y.pc = 28 -> to([s EXCEPT !.runqueue = task], 29, 0, FALSE)
          [] y.pc = 29 -> to([s EXCEPT !.tasks[task].next = task], 30, 0, FALSE)
          [] y.pc = 30 -> to([s EXCEPT !.tasks[task].prev = task], RETURNED, 0,
                             FALSE)
          [] y.pc = 33 -> to([s EXCEPT !.tasks[task].next = rq], 34, 0, FALSE)
          [] y.pc = 34 -> to([s EXCEPT !.tasks[task].prev = ts[rq].prev], 35, 0,
                             FALSE)
          [] y.pc = 35 -> to([s EXCEPT !.tasks = StoreNext(ts, ts[rq].prev, task)],
                             36, 0, ts[rq].prev = NULL)
          [] y.pc = 36 -> to([s EXCEPT !.tasks[rq].prev = task], 37, 0, FALSE)
          [] y.pc = 37 -> to([s EXCEPT !.runqueue = task], RETURNED, 0, FALSE)
          [] y.pc = 146 -> to([s EXCEPT !.tasks[s.current_task].state =
                                 TASK_ZOMBIE], 147, y.loc, FALSE)
          [] y.pc = 147 -> to([s EXCEPT !.tasks[s.current_task].exit_code =
                                 y.loc], 150, 0, FALSE)
          [] y.pc = 150 -> to(s, 45, 0, FALSE)
          [] y.pc = 45 -> to(s, IF task = NULL \/ rq = NULL
                                THEN AfterRemove(y.op) ELSE 47, 0, FALSE)
          [] y.pc = 47 -> to(s, IF ts[task].next = task THEN 49 ELSE 51, 0,
                             FALSE)
          [] y.pc = 49 -> to([s EXCEPT !.runqueue = NULL], 57, 0, FALSE)
          [] y.pc = 51 -> to([s EXCEPT !.tasks =
                                 StoreNext(ts, ts[task].prev, ts[task].next)],
                             52, 0, ts[task].prev = NULL)
          [] y.pc = 52 -> to([s EXCEPT !.tasks =
                                 StorePrev(ts, ts[task].next, ts[task].prev)],
                             53, 0, ts[task].next = NULL)
          [] y.pc = 53 -> to(IF rq = task
                             THEN [s EXCEPT !.runqueue = ts[task].next]
                             ELSE s, 57, 0, FALSE)
          [] y.pc = 57 -> to([s EXCEPT !.tasks[task].next = NULL], 58, 0, FALSE)
          [] y.pc = 58 -> to([s EXCEPT !.tasks[task].prev = NULL],
                             AfterRemove(y.op), 0, FALSE)
          [] y.pc = 153 -> to(s, 160, 0, FALSE)
          [] y.pc = 160 -> to(s, IF rq = NULL THEN RETURNED ELSE 166, 0, FALSE)
          [] y.pc = 166 -> to(s, 175,
                              IF s.current_task = NULL THEN rq
                              ELSE ts[s.current_task].next, FALSE)
          [] y.pc = 175 -> to(s, IF y.loc # NULL /\ y.loc # s.current_task
                                 THEN 177 ELSE RETURNED, y.loc, FALSE)
          [] y.pc = 177 -> to([s EXCEPT !.current_task = y.loc], 181, y.loc,
                              FALSE)
          [] y.pc = 181 -> to(s, RETURNED, 0, FALSE)
          [] y.pc = 264 -> to([s EXCEPT !.tasks[task].state = TASK_ZOMBIE], 45,
                              0, FALSE)
          [] y.pc = 268 -> to([s EXCEPT !.tasks[task] = BlankTask], RETURNED, 0,
                              FALSE)

\* TCB slots, PIDs and exit codes of the calls that are followed statement
\* by statement
PreemptSlots == 1..(MaxTasks - 1)
PreemptPids == 1..(MaxPid - 1)
PreemptCodes == {1}

\* IF after the processor enters a handler through a trap gate: unchanged
trap_gate(if_flag) == if_flag

\* IF after the processor enters a handler through an interrupt gate: cleared
interrupt_gate(if_flag) == FALSE

\* page_fault_handler that comes back from its last statement
page_fault_handler_returns(error_code) == TRUE

\* page_fault_handler(error_code): whether it returns; it prints and then
\* loops on hlt
page_fault_handler(error_code) == FALSE

\* error codes of a page fault: none or all of the present, write and user
\* bits
ErrorCodes == {0, 7}

Call(op, ret) == [op |-> op, arg |-> 0, ret |-> ret, killed |-> BlankTask]

\* the code that runs in task context executes sti
sti ==
    /\ ~halted
    /\ sync = NoSync
    /\ ~irq_on
    /\ irq_on' = TRUE
    /\ sched_call' = Call("sti", 0)
    /\ scen' = ScenOff
    /\ UNCHANGED <<current_task, runqueue, next_pid, tasks, heap_tcb,
                   heap_stack, counter, halted, sync>>
    /\ UNCHANGED <<vmmVars, pmmVars, cpuVars>>

\* task_create(func, name) is called: the allocations and the set-up of the
\* TCB up to the call of add_task_to_runqueue
sync_task_create ==
    /\ ~halted
    /\ sync = NoSync
    /\ next_pid \in PreemptPids
    /\ \E t \in (PreemptSlots \ heap_tcb) \cup {NULL}, stack_ok \in BOOLEAN :
        LET r == task_create_body(SchedState, next_pid, t, stack_ok)
        IN  /\ next_pid' = r.next_pid
            /\ heap_tcb' = heap_tcb \cup r.tcb
            /\ heap_stack' = heap_stack \cup r.stack
            /\ IF r.ret = NULL
               THEN /\ SetSched(r.st)
                    /\ sync' = NoSync
               ELSE /\ SetSched([SchedState EXCEPT !.tasks[t] = NewTask(next_pid)])
                    /\ sync' = [op |-> "task_create", pc |-> 27, arg |-> t,
                                loc |-> 0]
            /\ sched_call' = Call("task_create", r.ret)
    /\ scen' = ScenOff
    /\ UNCHANGED <<counter, halted, irq_on>>
    /\ UNCHANGED <<vmmVars, pmmVars, cpuVars>>

\* yield() is called
sync_yield ==
    /\ ~halted
    /\ sync = NoSync
    /\ sync' = [op |-> "yield", pc |-> 160, arg |-> 0, loc |-> 0]
    /\ sched_call' = Call("yield", 0)
    /\ scen' = ScenOff
    /\ UNCHANGED <<current_task, runqueue, next_pid, tasks, heap_tcb,
                   heap_stack, counter, halted, irq_on>>
    /\ UNCHANGED <<vmmVars, pmmVars, cpuVars>>

\* task_exit(exit_code) is called: the test of current_task
sync_task_exit ==
    /\ ~halted
    /\ sync = NoSync
    /\ \E code \in PreemptCodes :
        sync' = IF current_task = NULL THEN NoSync
                ELSE [op |-> "task_exit", pc |-> 146, arg |-> current_task,
                      loc |-> code]
    /\ sched_call' = Call("task_exit", 0)
    /\ scen' = ScenOff
    /\ UNCHANGED <<current_task, runqueue, next_pid, tasks, heap_tcb,
                   heap_stack, counter, halted, irq_on>>
    /\ UNCHANGED <<vmmVars, pmmVars, cpuVars>>

\* kill_task(pid) is called: the tests and the walk of find_task_by_pid
sync_kill_task ==
    /\ ~halted
    /\ sync = NoSync
    /\ \E pid \in KillPids :
        LET r == kill_task_body(SchedState, pid)
            target == find_task_by_pid(SchedState, pid)
        IN  /\ ~r.fault
            /\ sync' = IF r.ret # 0 THEN NoSync
                       ELSE [op |-> "kill_task", pc |-> 264, arg |-> target,
                             loc |-> 0]
            /\ sched_call' = Call("kill_task", r.ret)
    /\ scen' = ScenOff
    /\ UNCHANGED <<current_task, runqueue, next_pid, tasks, heap_tcb,
                   heap_stack, counter, halted, irq_on>>
    /\ UNCHANGED <<vmmVars, pmmVars, cpuVars>>

\* the call in progress executes its next statement; a store through a null
\* link faults or lands in low memory
sync_step ==
    /\ ~halted
    /\ sync # NoSync
    /\ LET r == Statement(SchedState, sync)
       IN  /\ SetSched(r.st)
           /\ \/ /\ sync' = IF r.pc = RETURNED THEN NoSync
                            ELSE [sync EXCEPT !.pc = r.pc, !.loc = r.loc]
                 /\ UNCHANGED <<halted, irq_on>>
              \/ /\ r.nullderef
                 /\ ~page_fault_handler(0)
                 /\ halted' = TRUE
                 /\ irq_on' = interrupt_gate(irq_on)
                 /\ UNCHANGED sync
           /\ IF sync.pc = 268
              THEN /\ heap_tcb' = heap_tcb \ {sync.arg}
                   /\ heap_stack' = heap_stack \ {sync.arg}
              ELSE UNCHANGED <<heap_tcb, heap_stack>>
    /\ sched_call' = Call(sync.op, 0)
    /\ scen' = ScenOff
    /\ UNCHANGED <<next_pid, counter>>
    /\ UNCHANGED <<vmmVars, pmmVars, cpuVars>>

\* the timer interrupt: its handler runs scheduler_tick with interrupts
\* masked; when schedule() switches to another task the handler does not
\* reach its iretq, the interrupted call stays suspended with the task
\* that was current and IF stays clear
timer_irq ==
    /\ irq_on
    /\ LET r == scheduler_tick_body(SchedState, counter)
       IN  /\ SetSched(r.st)
           /\ counter' = r.counter
           /\ IF r.st.current_task # current_task
              THEN /\ irq_on' = interrupt_gate(irq_on)
                   /\ sync' = NoSync
              ELSE UNCHANGED <<irq_on, sync>>
           /\ sched_call' = [op |-> "timer_irq",
                             arg |-> IF r.scheduled THEN 1 ELSE 0,
                             ret |-> 0, killed |-> BlankTask]
    /\ scen' = ScenOff
    /\ UNCHANGED <<next_pid, heap_tcb, heap_stack, halted>>
    /\ UNCHANGED <<vmmVars, pmmVars, cpuVars>>

\* a page fault: page_fault_isr is entered through its gate and calls
\* page_fault_handler
page_fault_isr ==
    /\ ~halted
    /\ \E e \in ErrorCodes :
        /\ halted' = ~page_fault_handler(e)
        /\ sched_call' = Call("page_fault_handler", 0)
    /\ irq_on' = interrupt_gate(irq_on)
    /\ scen' = ScenOff
    /\ UNCHANGED <<current_task, runqueue, next_pid, tasks, heap_tcb,
                   heap_stack, counter, sync>>
    /\ UNCHANGED <<vmmVars, pmmVars, cpuVars>>

PreemptNext ==
    \/ sti
    \/ sync_task_create
    \/ sync_yield
    \/ sync_task_exit
    \/ sync_kill_task
    \/ sync_step
    \/ timer_irq
    \/ page_fault_isr

(***************************************************************************)
(* Virtual memory manager: the 4-level translation tree                    *)
(***************************************************************************)
\* vmm.h: page table entry flags
PAGE_PRESENT == 1
PAGE_WRITE == 2
PAGE_USER == 4
PAGE_HUGE == 128

\* entries per table
TABLE_ENTRIES == 512

\* translate() finding no mapping
NONE == 0 - 1

\* physical addresses of the three tables the boot code sets up
P4_TABLE == 1052672
P3_TABLE == 1056768
P2_TABLE == 1060864

\* a table entry is the frame address plus the flag bits
EntryAddr(e) == e - (e % PAGE_SIZE)
EntryPresent(e) == (e \div PAGE_PRESENT) % 2 = 1

\* index of virtual page number vpn in the table of a level (4 = root,
\* 1 = leaf table): 9 bits of the page number per level
TableIndex(vpn, level) == (vpn \div (TABLE_ENTRIES ^ (level - 1))) % TABLE_ENTRIES

\* virtual pages mapped and unmapped: two in one leaf table, one in a second
\* leaf table under the same directory, one under another root entry; all
\* outside the first GiB, which the boot code maps with 2 MiB pages
VPages == {262144, 262145, 262656, 134217728}

\* the table indices these pages use; tables hold these entries only
TableIdx == {TableIndex(v, l) : v \in VPages, l \in 1..4}

\* frames that pages are mapped to
PhysFrames == {0, 3145728}

\* flag sets passed to map: present and writable, with and without user
MapFlags == {PAGE_PRESENT + PAGE_WRITE, PAGE_PRESENT + PAGE_WRITE + PAGE_USER}

\* number of frames the frame allocator hands out for new tables
MaxTables == 6

\* the frames the frame allocator hands out, lowest first
TableFrames == {LOW_MEM_LIMIT + k * PAGE_SIZE : k \in 0..(MaxTables - 1)}

\* a zeroed table
ZeroTable == [i \in TableIdx |-> 0]

\* the tree after boot: P4[0] -> P3, P3[0] -> P2, P2[i] = 2 MiB page i
\* (the entries P4[511] and P3[510] of the high half repeat them)
BootTables ==
    [t \in {P4_TABLE, P3_TABLE, P2_TABLE} |->
        CASE t = P4_TABLE ->
                [ZeroTable EXCEPT ![0] = P3_TABLE + PAGE_PRESENT + PAGE_WRITE]
          [] t = P3_TABLE ->
                [ZeroTable EXCEPT ![0] = P2_TABLE + PAGE_PRESENT + PAGE_WRITE]
          [] t = P2_TABLE ->
                [i \in TableIdx |->
                    i * LOW_MEM_LIMIT + PAGE_PRESENT + PAGE_WRITE + PAGE_HUGE]]

\* the frame obtained from the frame allocator for a new table
NewTableFrame(pt) ==
    CHOOSE f \in TableFrames \ DOMAIN pt :
        \A g \in TableFrames \ DOMAIN pt : f <= g

\* map(): one level of the walk.  An absent entry gets a frame from the
\* frame allocator, zeroed and installed present and writable
vmm_next_level(pt, tbl, idx) ==
    IF EntryPresent(pt[tbl][idx])
    THEN [pt |-> pt, tbl |-> EntryAddr(pt[tbl][idx])]
    ELSE LET f == NewTableFrame(pt)
         IN  [pt  |-> [x \in DOMAIN pt \cup {f} |->
                          IF x = f THEN ZeroTable
                          ELSE IF x = tbl
                               THEN [pt[tbl] EXCEPT
                                       ![idx] = f + PAGE_PRESENT + PAGE_WRITE]
                               ELSE pt[x]],
              tbl |-> f]

\* the walk to the leaf table of vpn, creating the absent levels
vmm_walk_create(pt, vpn) ==
    LET r3 == vmm_next_level(pt, P4_TABLE, TableIndex(vpn, 4))
        r2 == vmm_next_level(r3.pt, r3.tbl, TableIndex(vpn, 3))
    IN  vmm_next_level(r2.pt, r2.tbl, TableIndex(vpn, 2))

\* map() leaving a present leaf entry as it is
vmm_map_body_keep(pt, vpn, phys, flags) ==
    LET r == vmm_walk_create(pt, vpn)
    IN  IF EntryPresent(r.pt[r.tbl][TableIndex(vpn, 1)])
        THEN r.pt
        ELSE [r.pt EXCEPT ![r.tbl][TableIndex(vpn, 1)] = phys + flags]

\* map(virt, phys, flags): the leaf entry is written with the frame and the
\* requested flags, whatever it held
vmm_map_body(pt, vpn, phys, flags) ==
    LET r == vmm_walk_create(pt, vpn)
    IN  [r.pt EXCEPT ![r.tbl][TableIndex(vpn, 1)] = phys + flags]

\* one level of a walk that creates nothing: the next table, or NONE
vmm_descend(pt, tbl, idx) ==
    IF tbl = NONE THEN NONE
    ELSE IF EntryPresent(pt[tbl][idx]) THEN EntryAddr(pt[tbl][idx])
    ELSE NONE

\* the leaf table of vpn, or NONE when a level on the path is absent
vmm_leaf_table(pt, vpn) ==
    vmm_descend(pt,
        vmm_descend(pt,
            vmm_descend(pt, P4_TABLE, TableIndex(vpn, 4)),
            TableIndex(vpn, 3)),
        TableIndex(vpn, 2))

\* unmap() clearing the directory entry that points to the leaf table
vmm_unmap_body_table(pt, vpn) ==
    LET d == vmm_descend(pt,
                 vmm_descend(pt, P4_TABLE, TableIndex(vpn, 4)),
                 TableIndex(vpn, 3))
    IN  IF d = NONE THEN pt
        ELSE [pt EXCEPT ![d][TableIndex(vpn, 2)] = 0]

\* unmap(virt): clears the leaf entry only; the tables stay
vmm_unmap_body(pt, vpn) ==
    LET t == vmm_leaf_table(pt, vpn)
    IN  IF t = NONE THEN pt
        ELSE [pt EXCEPT ![t][TableIndex(vpn, 1)] = 0]

\* translate(virt): the frame of the page, or NONE when a level on the path
\* is absent
vmm_get_phys_body(pt, vpn) ==
    LET t == vmm_leaf_table(pt, vpn)
    IN  IF t = NONE THEN NONE
        ELSE IF EntryPresent(pt[t][TableIndex(vpn, 1)])
             THEN EntryAddr(pt[t][TableIndex(vpn, 1)])
             ELSE NONE

\* the translation of every page
Translations(pt) == [w \in VPages |-> vmm_get_phys_body(pt, w)]

VmmInit ==
    /\ page_tables = BootTables
    /\ vmm_call = [op |-> "boot", virt |-> 0, phys |-> 0, ret |-> 0,
                   pre |-> Translations(BootTables)]

vmm_map ==
    \E v \in VPages, p \in PhysFrames, f \in MapFlags :
        /\ page_tables' = vmm_map_body(page_tables, v, p, f)
        /\ vmm_call' = [op |-> "map", virt |-> v, phys |-> p, ret |-> 0,
                        pre |-> Translations(page_tables)]
        /\ UNCHANGED <<pmmVars, schedVars>> /\ UNCHANGED <<cpuVars, irqVars>>

vmm_unmap ==
    \E v \in VPages :
        /\ page_tables' = vmm_unmap_body(page_tables, v)
        /\ vmm_call' = [op |-> "unmap", virt |-> v, phys |-> 0, ret |-> 0,
                        pre |-> Translations(page_tables)]
        /\ UNCHANGED <<pmmVars, schedVars>> /\ UNCHANGED <<cpuVars, irqVars>>

vmm_get_phys ==
    \E v \in VPages :
        /\ vmm_call' = [op |-> "get_phys", virt |-> v, phys |-> 0,
                        ret |-> vmm_get_phys_body(page_tables, v),
                        pre |-> Translations(page_tables)]
        /\ UNCHANGED page_tables
        /\ UNCHANGED <<pmmVars, schedVars>> /\ UNCHANGED <<cpuVars, irqVars>>

VmmNext ==
    \/ vmm_map
    \/ vmm_unmap
    \/ vmm_get_phys

(***************************************************************************)
(* Specifications                                                          *)
(***************************************************************************)
Init == PmmInit /\ SchedInit /\ CpuInit /\ IrqInit /\ VmmInit

\* the physical frame allocator, called sequentially
PmmSpec == Init /\ [][PmmNext]_vars

\* the physical frame allocator, called from two contexts that interleave
\* between the lock operations and the bodies
PmmLockSpec == Init /\ [][PmmLockNext]_vars

\* the scheduler, its operations called one after the other
SchedSpec == Init /\ [][SchedNext]_vars

\* task creation, schedule() with its context switch, and the running task
SwitchSpec == Init /\ [][SwitchNext]_vars

\* the scheduler calls statement by statement, interleaved with the timer
\* interrupt and the page fault
PreemptSpec == Init /\ [][PreemptNext]_vars

\* the virtual memory manager, its operations called one after the other
VmmSpec == Init /\ [][VmmNext]_vars

(***************************************************************************)
(* Properties of the physical frame allocator                              *)
(***************************************************************************)
\* bit of frame f in allocator state s (f below 8 * bitmap_size)
FrameBit(s, f) == TestBit(s.bitmap[f \div 8], f % 8)

\* all bits of the bitmap bytes, padding bits of the last byte included
BitmapBits(s) == 0..(8 * s.bitmap_size - 1)

SetBits(s) == {f \in BitmapBits(s) : FrameBit(s, f)}
ClearBits(s) == {f \in BitmapBits(s) : ~FrameBit(s, f)}

\* the frames of the managed RAM
Frames(s) == 0..(s.total_pages - 1)

\* free frames at or above the 2 MiB reservation
FreeHigh(s) == {f \in Frames(s) : f >= LowFrames /\ ~FrameBit(s, f)}

\* free frames below the reservation
FreeLow(s) == {f \in Frames(s) : f < LowFrames /\ ~FrameBit(s, f)}

Min(S) == CHOOSE x \in S : \A y \in S : x <= y

\* C1 as stated: used_pages equals the number of set bits of the bitmap and
\* total_pages - used_pages the number of clear bits, for every total_pages.
C1_UsedEqualsSetBits ==
    /\ used_pages = Cardinality(SetBits(PmmState))
    /\ total_pages - used_pages = Cardinality(ClearBits(PmmState))

\* C1 amended: used_pages equals the number of set bits among the bits of the
\* frames 0..total_pages-1; the padding bits of the last bitmap byte stay set
\* and are not counted, so the set bits of the whole bitmap number
\* used_pages + (8 * bitmap_size - total_pages); total_pages - used_pages
\* equals the number of clear bits.
C1_UsedEqualsSetFrameBits ==
    /\ used_pages = Cardinality({f \in Frames(PmmState) : FrameBit(PmmState, f)})
    /\ Cardinality(SetBits(PmmState))
         = used_pages + (8 * bitmap_size - total_pages)
    /\ total_pages - used_pages = Cardinality(ClearBits(PmmState))

C1_Witness ==
    /\ total_pages % 8 # 0
    /\ pmm_call.op \in {"mark_free", "mark_used", "alloc", "free_page"}
    /\ PmmState # pmm_call.pre
    /\ 0 < used_pages /\ used_pages < total_pages

\* C2: pmm_alloc_page never returns a non-null address below 0x200000, also
\* when frames below 2 MiB are free.
C2_NeverBelowReservation ==
    (pmm_call.op = "alloc" /\ pmm_call.ret # NULL)
        => pmm_call.ret >= LOW_MEM_LIMIT

C2_Witness ==
    /\ pmm_call.op = "alloc"
    /\ FreeLow(pmm_call.pre) # {}
    /\ pmm_call.ret >= LOW_MEM_LIMIT

\* C3: after pmm_init every frame is used, and pmm_alloc_page only returns a
\* frame that was passed to mark_free/free_page since pmm_init and was not
\* allocated or marked used since; with nothing freed it fails.
C3_FailSafeDefault ==
    /\ [](pmm_call.op = "init" =>
            /\ used_pages = total_pages
            /\ ClearBits(PmmState) = {})
    /\ [][(pmm_call'.op = "alloc" /\ pmm_call'.ret # NULL)
            => (pmm_call'.ret \div PAGE_SIZE) \in freed]_vars
    /\ [][(pmm_call'.op = "alloc" /\ freed = {}) => pmm_call'.ret = NULL]_vars

C3_Witness ==
    /\ pmm_call.op = "alloc"
    /\ pmm_call.ret # NULL
    /\ Cardinality(FreeHigh(pmm_call.pre)) = 1
    /\ FreeLow(pmm_call.pre) = {}

C5_IdempotentBoundsChecked ==
    LET pre   == pmm_call.pre
        block == pmm_call.arg \div PAGE_SIZE
        flips == block < pre.total_pages
                 /\ FrameBit(pre, block) # FrameBit(PmmState, block)
    IN  /\ pmm_call.op = "mark_free" =>
            /\ pmm_mark_free_body(PmmState, pmm_call.arg) = PmmState
            /\ flips => /\ used_pages = pre.used_pages - 1
                        /\ FrameBit(pre, block)
            /\ ~flips => PmmState = pre
            /\ block < pre.total_pages => ~FrameBit(PmmState, block)
            /\ block >= pre.total_pages => PmmState = pre
        /\ pmm_call.op = "mark_used" =>
            /\ pmm_mark_used_body(PmmState, pmm_call.arg) = PmmState
            /\ flips => /\ used_pages = pre.used_pages + 1
                        /\ ~FrameBit(pre, block)
            /\ ~flips => PmmState = pre
            /\ block < pre.total_pages => FrameBit(PmmState, block)
            /\ block >= pre.total_pages => PmmState = pre
        /\ pmm_call.op \in {"mark_free", "mark_used"} =>
            \A f \in BitmapBits(pre) \ {block} :
                FrameBit(PmmState, f) = FrameBit(pre, f)

C5_Witness ==
    /\ pmm_call.op = "mark_used"
    /\ pmm_call.arg \div PAGE_SIZE < total_pages
    /\ pmm_call.pre = PmmState
    /\ used_pages < total_pages

\* C6: with a free frame at or above 0x200000, pmm_alloc_page returns the
\* address of the lowest such frame, sets exactly that frame's bit and adds
\* 1 to used_pages (4 to the used KB); after pmm_init over 16 MiB, with frame
\* 0x200000 free, it returns 0x200000.
C6_AllocLowestFreeHigh ==
    LET pre == pmm_call.pre
    IN  (pmm_call.op = "alloc" /\ FreeHigh(pre) # {}) =>
            /\ pmm_call.ret = Min(FreeHigh(pre)) * PAGE_SIZE
            /\ SetBits(PmmState) = SetBits(pre) \cup {Min(FreeHigh(pre))}
            /\ bitmap_size = pre.bitmap_size
            /\ total_pages = pre.total_pages
            /\ used_pages = pre.used_pages + 1
            /\ pmm_get_used_kb(PmmState) = pmm_get_used_kb(pre) + 4
            /\ pmm_get_total_kb(PmmState) = pmm_get_total_kb(pre)
            /\ (pre.total_pages * PAGE_SIZE = ScenarioSize
                    /\ LowFrames \in FreeHigh(pre))
                 => pmm_call.ret = LOW_MEM_LIMIT

C6_Witness ==
    /\ pmm_call.op = "alloc"
    /\ Cardinality(FreeHigh(pmm_call.pre)) >= 2
    /\ pmm_call.ret > LOW_MEM_LIMIT

\* C7: with no free frame at or above 0x200000, pmm_alloc_page returns null
\* and leaves the bitmap and used_pages unchanged.
C7_AllocFailsUnchanged ==
    (pmm_call.op = "alloc" /\ FreeHigh(pmm_call.pre) = {}) =>
        /\ pmm_call.ret = NULL
        /\ PmmState = pmm_call.pre

C7_Witness ==
    /\ pmm_call.op = "alloc"
    /\ pmm_call.ret = NULL
    /\ pmm_call.pre.total_pages > LowFrames
    /\ FreeLow(pmm_call.pre) # {}

\* a context is reading or writing the bitmap and used_pages
InBody(c) == pmm_ctx[c].pc \in {"body", "commit"}

\* C8 as stated: every allocator operation that writes or scans the bitmap
\* or used_pages, pmm_init included, does so while holding pmm_lock.
C8_AllBodiesUnderLock ==
    \A c \in Contexts : InBody(c) => pmm_lock = c

\* C8 amended: pmm_mark_free, pmm_mark_used, pmm_alloc_page and
\* pmm_free_page perform all their reads and writes of the bitmap and
\* used_pages while holding pmm_lock; pmm_init writes them without taking
\* the lock.
C8_BodiesUnderLockExceptInit ==
    \A c \in Contexts :
        /\ (InBody(c) /\ pmm_ctx[c].op # "init") => pmm_lock = c
        /\ (pmm_ctx[c].pc = "acquire") => pmm_lock # c
        /\ (pmm_ctx[c].pc = "idle") => pmm_lock # c

C8_Witness ==
    /\ InBody(1) /\ pmm_ctx[1].op = "alloc"
    /\ pmm_ctx[2].pc = "acquire" /\ pmm_ctx[2].op = "mark_free"
    /\ pmm_lock = 1
    /\ total_pages > LowFrames

(***************************************************************************)
(* Properties of the scheduler                                             *)
(***************************************************************************)
\* a run of exactly three task creations A, B, C followed by n >= 1
\* schedule() calls and nothing else
ThreeTasksScheduled ==
    /\ scen.phase = "sched"
    /\ Len(scen.order) = 3
    /\ scen.n >= 1

RECURSIVE RingWalk(_, _, _)
RingWalk(s, cur, fuel) ==
    IF fuel = 0 \/ cur = NULL
    THEN << >>
    ELSE IF s.tasks[cur].next = s.runqueue
    THEN <<cur>>
    ELSE <<cur>> \o RingWalk(s, s.tasks[cur].next, fuel - 1)

RingSeq(s) ==
    IF s.runqueue = NULL THEN << >> ELSE RingWalk(s, s.runqueue, MaxTasks)

RingMembers(s) == LET q == RingSeq(s) IN {q[i] : i \in 1..Len(q)}

\* the cyclic order of the runqueue read from task t, t left out
RECURSIVE OrderWalk(_, _, _, _)
OrderWalk(s, t, cur, fuel) ==
    IF fuel = 0 \/ cur = NULL \/ cur = t
    THEN << >>
    ELSE <<cur>> \o OrderWalk(s, t, s.tasks[cur].next, fuel - 1)

OrderAfter(s, t) == OrderWalk(s, t, s.tasks[t].next, MaxTasks)

\* sequence q with every occurrence of t left out
Without(q, t) == SelectSeq(q, LAMBDA x : x # t)

\* q1 and q2 are the same cycle, read from possibly different members
SameCycle(q1, q2) ==
    /\ Len(q1) = Len(q2)
    /\ \/ Len(q1) = 0
       \/ \E k \in 0..(Len(q1) - 1) :
            \A i \in 1..Len(q1) : q2[i] = q1[((i - 1 + k) % Len(q1)) + 1]

\* the step is a call of task_exit made by a current task
ExitStep == sched_call'.op = "task_exit" /\ current_task # NULL

\* C11: when the current task calls task_exit while another task is linked in
\* the runqueue, current_task becomes another runqueue task, and no task that
\* has exited is current_task in any state.
C11_HandOffOnExit ==
    /\ [][(/\ ExitStep
           /\ current_task \in RingMembers(SchedState)
           /\ RingMembers(SchedState) \ {current_task} # {})
          => (/\ current_task' # current_task
              /\ current_task' \in RingMembers(SchedState)')]_vars
    /\ [](current_task # NULL => tasks[current_task].state # TASK_ZOMBIE)

\* C12: task_exit(code) called by a current task leaves that task ZOMBIE with
\* exit_code = code and out of the runqueue, whose other tasks keep their
\* cyclic order, and frees neither its TCB nor its stack; called with no
\* current task it changes nothing.
C12_ExitEffect ==
    [][sched_call'.op = "task_exit"
       => IF current_task # NULL
          THEN /\ tasks'[current_task].state = TASK_ZOMBIE
               /\ tasks'[current_task].exit_code = sched_call'.arg
               /\ current_task \notin RingMembers(SchedState)'
               /\ SameCycle(RingSeq(SchedState)',
                            Without(RingSeq(SchedState), current_task))
               /\ heap_tcb' = heap_tcb
               /\ heap_stack' = heap_stack
          ELSE UNCHANGED <<current_task, runqueue, tasks, next_pid, heap_tcb,
                           heap_stack, counter, halted>>]_vars

\* a task has just exited with code 1 while two other tasks stay linked
C12_Witness ==
    /\ sched_call.op = "task_exit"
    /\ sched_call.arg = 1
    /\ current_task # NULL
    /\ tasks[current_task].state = TASK_ZOMBIE
    /\ tasks[current_task].exit_code = 1
    /\ current_task \in heap_tcb \cap heap_stack
    /\ Len(RingSeq(SchedState)) = 2
    /\ current_task \notin RingMembers(SchedState)

\* C13: in every reachable state current_task is null or a task linked in
\* the runqueue.
C13_CurrentIsLinked ==
    current_task = NULL \/ current_task \in RingMembers(SchedState)

\* the runqueue of s is empty, or one cycle through the head whose members
\* are joined both ways
WellFormed(s) ==
    \/ s.runqueue = NULL
    \/ LET q == RingSeq(s)
       IN  /\ \A i, j \in 1..Len(q) : q[i] = q[j] => i = j
           /\ s.tasks[q[Len(q)]].next = s.runqueue
           /\ \A i \in 1..Len(q) :
                LET t == q[i]
                IN  /\ s.tasks[t].next # NULL
                    /\ s.tasks[t].prev # NULL
                    /\ s.tasks[s.tasks[t].next].prev = t
                    /\ s.tasks[s.tasks[t].prev].next = t

\* the task a step takes out of the runqueue, NULL if it takes none
Removed ==
    IF sched_call'.op = "task_exit" /\ current_task \in RingMembers(SchedState)
    THEN current_task
    ELSE IF sched_call'.op = "kill_task" /\ sched_call'.ret = 0
    THEN find_task_by_pid(SchedState, sched_call'.arg)
    ELSE NULL

\* C14: the runqueue is always empty or a single cycle through the head in
\* which every member t has t.next.prev = t and t.prev.next = t; removing the
\* sole member leaves the head null, and removing the head makes its
\* successor the new head.
C14_WellFormed ==
    /\ [](WellFormed(SchedState))
    /\ [][Removed # NULL
          => /\ (RingSeq(SchedState) = <<Removed>> => runqueue' = NULL)
             /\ (runqueue = Removed /\ Len(RingSeq(SchedState)) > 1
                 => runqueue' = tasks[Removed].next)]_vars

\* the third of three tasks, the head, has just been killed and the two
\* others form the runqueue, the second task being the head
C14_Witness ==
    /\ sched_call.op = "kill_task"
    /\ sched_call.ret = 0
    /\ sched_call.killed.pid = 3
    /\ next_pid = 4
    /\ runqueue # NULL
    /\ Len(RingSeq(SchedState)) = 2
    /\ tasks[runqueue].pid = 2
    /\ tasks[tasks[runqueue].next].pid = 1

\* what kill_task must leave alone when it fails
KillFrame ==
    UNCHANGED <<current_task, runqueue, tasks, heap_tcb, heap_stack>>

\* C15: whenever a task is current, kill_task called with the PID of the
\* current task returns the self-kill code -2, which differs from the
\* not-found code -1 and from 0, and leaves the runqueue, current_task, the
\* task states and the allocations unchanged.
C15_SelfKillRejected ==
    [][(/\ sched_call'.op = "kill_task"
        /\ current_task # NULL
        /\ sched_call'.arg = tasks[current_task].pid)
       => (/\ sched_call'.ret = KILL_SELF
           /\ KILL_SELF \notin {KILL_NOT_FOUND, 0}
           /\ KillFrame)]_vars

\* the PIDs of the tasks linked in the runqueue of s
RingPids(s) == {s.tasks[t].pid : t \in RingMembers(s)}

\* C16: kill_task(pid) with pid <= 0, with an empty runqueue, or with a pid
\* of no task linked in the runqueue returns -1 and leaves the runqueue,
\* current_task, the task states and the allocations unchanged.
C16_NotFoundRejected ==
    [][(/\ sched_call'.op = "kill_task"
        /\ \/ sched_call'.arg <= 0
           \/ runqueue = NULL
           \/ sched_call'.arg \notin RingPids(SchedState))
       => (/\ sched_call'.ret = KILL_NOT_FOUND
           /\ KillFrame)]_vars

\* kill_task has just been refused for a positive pid that no task of a
\* runqueue of two tasks has
C16_Witness ==
    /\ sched_call.op = "kill_task"
    /\ sched_call.ret = KILL_NOT_FOUND
    /\ sched_call.arg > 0
    /\ Len(RingSeq(SchedState)) = 2
    /\ sched_call.arg \notin RingPids(SchedState)

\* the tasks that exited through task_exit: their TCB is still allocated,
\* while kill_task frees the TCB of the task it marks ZOMBIE
Exited == {t \in heap_tcb : tasks[t].state = TASK_ZOMBIE}

\* C17: kill_task called with the PID of a task that exited through task_exit
\* returns -1 and frees nothing: the TCB and the stack of the exited task stay
\* allocated.
C17_KillExitedNotFound ==
    [][(/\ sched_call'.op = "kill_task"
        /\ \E t \in Exited : sched_call'.arg = tasks[t].pid)
       => (/\ sched_call'.ret = KILL_NOT_FOUND
           /\ KillFrame
           /\ \A t \in Exited : t \in heap_tcb' \cap heap_stack')]_vars

\* kill_task has just been refused for the PID of an exited task while
\* another task is linked in the runqueue
C17_Witness ==
    /\ sched_call.op = "kill_task"
    /\ sched_call.ret = KILL_NOT_FOUND
    /\ runqueue # NULL
    /\ \E t \in Exited :
        /\ tasks[t].pid = sched_call.arg
        /\ t \notin RingMembers(SchedState)
        /\ t \in heap_tcb \cap heap_stack

\* the task linked in the runqueue with PID pid, NULL if there is none
Linked(pid) ==
    LET m == {t \in RingMembers(SchedState) : tasks[t].pid = pid}
    IN  IF m = {} THEN NULL ELSE CHOOSE t \in m : TRUE

\* C18: kill_task(pid) for a task linked in the runqueue that is not the
\* current task returns 0, marks the task ZOMBIE, takes exactly that task out
\* of the runqueue, frees its stack and its TCB, and leaves current_task and
\* the cyclic order of the remaining runqueue tasks unchanged.
C18_KillEffect ==
    [][(/\ sched_call'.op = "kill_task"
        /\ Linked(sched_call'.arg) # NULL
        /\ Linked(sched_call'.arg) # current_task)
       => LET t == Linked(sched_call'.arg)
          IN  /\ sched_call'.ret = 0
              /\ sched_call'.killed.pid = sched_call'.arg
              /\ sched_call'.killed.state = TASK_ZOMBIE
              /\ t \notin RingMembers(SchedState)'
              /\ SameCycle(RingSeq(SchedState)',
                           Without(RingSeq(SchedState), t))
              /\ heap_stack' = heap_stack \ {t}
              /\ heap_tcb' = heap_tcb \ {t}
              /\ t \in heap_stack \cap heap_tcb
              /\ current_task' = current_task]_vars

\* a task has just been killed while the current task and one more task stay
\* linked in the runqueue
C18_Witness ==
    /\ sched_call.op = "kill_task"
    /\ sched_call.ret = 0
    /\ sched_call.killed.state = TASK_ZOMBIE
    /\ sched_call.killed.pid = sched_call.arg
    /\ sched_call.arg \notin RingPids(SchedState)
    /\ Len(RingSeq(SchedState)) = 2
    /\ current_task \in RingMembers(SchedState)
    /\ Cardinality(heap_tcb) = 2
    /\ heap_stack = heap_tcb

\* C19: find_task_by_pid(pid) returns no match for pid <= 0, on an empty
\* runqueue and for a PID never issued; otherwise it returns the runqueue
\* task whose PID is pid, or no match if none is linked; its walk comes back
\* to the head on every reachable runqueue.
C19_FindByPid ==
    \A pid \in KillPids :
        LET found == find_task_by_pid(SchedState, pid)
        IN  /\ found # -1
            /\ (pid <= 0 \/ runqueue = NULL \/ pid >= next_pid
                => found = NULL)
            /\ found = Linked(pid)

\* kill_task has just found the current task in a runqueue of three tasks
C19_Witness ==
    /\ sched_call.op = "kill_task"
    /\ sched_call.ret = KILL_SELF
    /\ Len(RingSeq(SchedState)) = 3
    /\ current_task # runqueue
    /\ find_task_by_pid(SchedState, sched_call.arg) = current_task
    /\ find_task_by_pid(SchedState, next_pid) = NULL

\* the step is a task_create call that returns a task
CreateStep == sched_call'.op = "task_create" /\ sched_call'.ret # NULL

\* every PID held by an allocated task or by the task just freed is below
\* next_pid, and no two allocated tasks share a PID
PidsDistinct ==
    /\ \A t \in heap_tcb : tasks[t].pid >= 1 /\ tasks[t].pid < next_pid
    /\ \A t, u \in heap_tcb : tasks[t].pid = tasks[u].pid => t = u
    /\ sched_call.killed.pid < next_pid

\* a created task gets a PID above every PID issued before: it gets
\* next_pid, which is above the PID of every task alive or just freed and
\* which only scheduler_init ever lowers
PidsIncrease ==
    /\ [](PidsDistinct)
    /\ [][CreateStep => /\ tasks'[sched_call'.ret].pid = next_pid
                        /\ next_pid' > next_pid]_vars
    /\ [][sched_call'.op # "scheduler_init" => next_pid' >= next_pid]_vars

\* the step is the first task_create call since scheduler_init to return a
\* task, only failed task_create calls lying in between
FirstCreateStep ==
    CreateStep /\ scen.phase = "create" /\ scen.order = << >>

\* C20 as stated: the first task created after scheduler_init has PID 1,
\* every later task gets a PID above all PIDs issued before, and no two tasks
\* share a PID.
C20_FirstPidIsOne ==
    /\ [][FirstCreateStep => tasks'[sched_call'.ret].pid = 1]_vars
    /\ PidsIncrease

\* C20 amended: the first task created after scheduler_init has PID 1 plus
\* the number of task_create calls that failed at the stack allocation before
\* it; every later task gets a PID above all PIDs issued before, and no two
\* tasks share a PID.
C20_FirstPidAfterFailures ==
    /\ [][FirstCreateStep
          => tasks'[sched_call'.ret].pid = 1 + scen.burnt]_vars
    /\ PidsIncrease

\* the first task has just been created after one task_create call failed at
\* the stack allocation, and has PID 2
C20_Witness ==
    /\ sched_call.op = "task_create"
    /\ sched_call.ret # NULL
    /\ scen.phase = "create"
    /\ Len(scen.order) = 1
    /\ heap_tcb = {sched_call.ret}
    /\ tasks[sched_call.ret].pid = 2
    /\ next_pid = 3

\* C21: a task_create call that fails at the TCB or at the stack allocation
\* returns null, leaves no allocation of its own outstanding, and leaves the
\* runqueue and current_task unchanged.
C21_CreateFailureLeavesNothing ==
    [][(sched_call'.op = "task_create" /\ sched_call'.ret = NULL)
       => /\ heap_tcb' = heap_tcb
          /\ heap_stack' = heap_stack
          /\ runqueue' = runqueue
          /\ RingSeq(SchedState)' = RingSeq(SchedState)
          /\ \A t \in heap_tcb : tasks'[t] = tasks[t]
          /\ current_task' = current_task]_vars

\* task_create has just failed at the stack allocation (it has consumed a
\* PID) while two tasks are linked in the runqueue
C21_Witness ==
    /\ sched_call.op = "task_create"
    /\ sched_call.ret = NULL
    /\ sched_call.arg # NULL
    /\ Len(RingSeq(SchedState)) = 2
    /\ Cardinality(heap_tcb) = 2
    /\ heap_stack = heap_tcb
    /\ next_pid = 4

\* the number of ticks the documentation gives between two schedule() calls
DOC_TICKS == 10

\* the step is a scheduler_tick call made while a task is current
TickStep == sched_call'.op = "scheduler_tick" /\ current_task # NULL

\* C25: scheduler_tick counts the ticks and calls schedule() at every 10th
\* tick, where it resets its counter to 0, and on no other tick.
C25_ScheduleEveryTenTicks ==
    [][TickStep
       => IF counter + 1 = DOC_TICKS
          THEN /\ counter' = 0
               /\ current_task' = schedule_body(SchedState).current_task
          ELSE /\ counter' = counter + 1
               /\ current_task' = current_task]_vars

\* C28: a task is RUNNING from its creation until task_exit or kill_task
\* makes it ZOMBIE; a ZOMBIE task never changes state again; no task is ever
\* INTERRUPTIBLE, UNINTERRUPTIBLE, STOPPED or TRACED; every task linked in
\* the runqueue is RUNNING.
C28_TaskStateMachine ==
    /\ [](/\ \A t \in heap_tcb :
               /\ tasks[t].state \in {TASK_RUNNING, TASK_ZOMBIE}
               /\ tasks[t].state \notin {TASK_INTERRUPTIBLE,
                                         TASK_UNINTERRUPTIBLE,
                                         TASK_STOPPED, TASK_TRACED}
          /\ \A t \in RingMembers(SchedState) : tasks[t].state = TASK_RUNNING
          /\ sched_call.killed.state \in {TASK_RUNNING, TASK_ZOMBIE})
    /\ [][/\ \A t \in heap_tcb' \ heap_tcb : tasks'[t].state = TASK_RUNNING
          /\ \A t \in heap_tcb \cap heap_tcb' :
               /\ tasks[t].state = TASK_ZOMBIE
                  => tasks'[t].state = TASK_ZOMBIE
               /\ tasks'[t].state # tasks[t].state
                  => /\ sched_call'.op = "task_exit"
                     /\ t = current_task
          /\ \A t \in heap_tcb \ heap_tcb' :
               /\ sched_call'.op = "kill_task"
               /\ tasks[t].state = TASK_RUNNING
               /\ sched_call'.killed.state = TASK_ZOMBIE]_vars

\* one task has exited and is ZOMBIE, one has just been killed, and one is
\* RUNNING in the runqueue
C28_Witness ==
    /\ sched_call.op = "kill_task"
    /\ sched_call.ret = 0
    /\ sched_call.killed.state = TASK_ZOMBIE
    /\ Exited # {}
    /\ Len(RingSeq(SchedState)) = 1
    /\ tasks[runqueue].state = TASK_RUNNING

\* two ways of ranking the tasks: by slot, ascending and descending
PrioRanks == {[t \in Slots |-> t], [t \in Slots |-> MaxTasks + 1 - t]}

\* state s with the four priority fields of every task overwritten by values
\* made from the rank f[t] of the task: no two tasks keep equal priorities,
\* none keeps the default, some lie below the default and some above
WithPrios(s, f) ==
    [s EXCEPT !.tasks = [t \in Slots |->
        [s.tasks[t] EXCEPT !.prio = f[t],
                           !.static_prio = DEFAULT_PRIO + f[t],
                           !.normal_prio = DEFAULT_PRIO - f[t],
                           !.rt_priority = f[t] + 1]]]

\* state s without its priority fields
NoPrios(s) ==
    [s EXCEPT !.tasks = [t \in Slots |->
        [s.tasks[t] EXCEPT !.prio = 0, !.static_prio = 0,
                           !.normal_prio = 0, !.rt_priority = 0]]]

\* every scheduler call made in s and made in s2 gives the same current_task,
\* the same runqueue and the same return value, and states that differ in
\* the priority fields at most
SameCalls(s, s2) ==
    /\ NoPrios(schedule_body(s2)) = NoPrios(schedule_body(s))
    /\ \A code \in ExitCodes :
        LET r == task_exit_body(s, code)
            r2 == task_exit_body(s2, code)
        IN  /\ NoPrios(r2.st) = NoPrios(r.st)
            /\ r2.nullderef = r.nullderef
            /\ NoPrios(r2.at_fault) = NoPrios(r.at_fault)
    /\ \A pid \in KillPids :
        LET r == kill_task_body(s, pid)
            r2 == kill_task_body(s2, pid)
        IN  /\ NoPrios(r2.st) = NoPrios(r.st)
            /\ r2.ret = r.ret
            /\ r2.free_tcb = r.free_tcb
            /\ r2.free_stack = r.free_stack
    /\ \A t \in Slots \ heap_tcb :
        LET r == task_create_body(s, next_pid, t, TRUE)
            r2 == task_create_body(s2, next_pid, t, TRUE)
        IN  /\ NoPrios(r2.st) = NoPrios(r.st)
            /\ r2.ret = r.ret

\* C30: two runs that apply the same task_create, schedule, task_exit and
\* kill_task calls and differ in the priority fields of the tasks select the
\* same tasks as current_task: in every reachable state, each call gives the
\* same current_task and runqueue whatever the priority fields hold.
C30_PriorityInert ==
    \A f \in PrioRanks : SameCalls(SchedState, WithPrios(SchedState, f))

\* schedule() has just moved current_task along a runqueue of three tasks,
\* which it does whatever the priority fields hold
C30_Witness ==
    /\ sched_call.op = "schedule"
    /\ Len(RingSeq(SchedState)) = 3
    /\ current_task \in RingMembers(SchedState)
    /\ current_task # runqueue
    /\ \A f \in PrioRanks :
        schedule_body(WithPrios(SchedState, f)).current_task
            = tasks[current_task].next

(***************************************************************************)
(* Properties of the context switch                                        *)
(***************************************************************************)
\* the step is a schedule() call that switches to another task
SwitchStep == sched_call'.op = "schedule" /\ current_task' # current_task

\* C22: the first time schedule() switches into a created task, by its
\* direct jump or by switch_to, execution begins at the function of the task
\* with the stack pointer at the 16-byte-aligned top of the stack of the
\* task.
C22_FirstSwitchAtEntry ==
    [][(SwitchStep /\ ~hist[current_task'].started)
       => LET t == current_task'
          IN  /\ cpu'.rip = Entry(t)
              /\ cpu'.rsp = StackTop(stack[t])
              /\ cpu'.rsp % STACK_ALIGN = 0
              /\ cpu'.rsp > stack[t]
              /\ cpu'.rsp <= stack[t] + STACK_SIZE]_vars

\* C23: a task that was switched out by switch_to and is selected again by
\* schedule() resumes right after the switch_to call it was suspended in,
\* with rbx, rbp, r12-r15 and the stack pointer as they were when it was
\* switched out.
C23_ResumeWhereYielded ==
    [][(SwitchStep /\ hist[current_task'].saved)
       => LET t == current_task'
          IN  /\ cpu'.rip = RET_SCHEDULE
              /\ cpu'.regs = hist[t].regs
              /\ cpu'.rsp = hist[t].rsp]_vars

TickSchedules ==
    /\ sched_call'.op = "timer_irq"
    /\ sched_call'.arg = 1
    /\ counter = TICK_THRESHOLD - 1
    /\ counter' = 0

\* C26: a schedule() called through scheduler_tick never begins while
\* another schedule() call, from yield or task_exit, is between reading
\* current_task and the end of its switch; interrupts are masked for the
\* whole of schedule().
C26_NoReentry ==
    [][TickSchedules => sync.pc \notin ScheduleWindow]_vars

\* C27: a schedule() called through scheduler_tick never runs where
\* add_task_to_runqueue or remove_task_from_runqueue has applied only some
\* of its updates: it finds a well-formed runqueue.
C27_MutationsAtomic ==
    [][TickSchedules
       => /\ sync.pc \notin MutationWindow
          /\ WellFormed(SchedState)]_vars

C29_ReturnsWitness ==
    /\ ~halted
    /\ sched_call.op = "kill_task"
    /\ sched_call.ret = KILL_SELF
    /\ next_pid > Cardinality(heap_tcb) + 1

(***************************************************************************)
(* Layout of the context; round-robin; freed and unlinked tasks; the timer *)
(***************************************************************************)
\* C32: every offset switch_to uses to save or load r15, r14, r13, r12, rbx,
\* rbp and rsp, and to load the instruction pointer it jumps to, is the
\* offset of the field of that name in task_context_t, so that switch_to
\* finds in every context task_create has written the values task_create
\* stored under those names.
C32_LayoutAgrees ==
    \A t \in heap_tcb :
        /\ \A r \in Regs : /\ SW_OFF[r] = OffsetOf(r)
                            /\ ctx[t][SW_OFF[r]] = ctx[t][OffsetOf(r)]
        /\ SW_RSP = OffsetOf("rsp")
        /\ ctx[t][SW_RSP] = ctx[t][OffsetOf("rsp")]
        /\ SW_RIP = OffsetOf("rip")
        /\ ctx[t][SW_RIP] = ctx[t][OffsetOf("rip")]

\* C40: while current_task is NULL a scheduler_tick changes neither its
\* counter nor current_task, runqueue or tasks, whatever the runqueue holds;
\* current_task leaves NULL only by a schedule() or yield() call.
C40_TimerNeverStarts ==
    [][/\ (sched_call'.op = "scheduler_tick" /\ current_task = NULL)
          => UNCHANGED <<current_task, runqueue, tasks, counter>>
       /\ (current_task = NULL /\ current_task' # NULL)
          => sched_call'.op \in {"schedule", "yield"}]_vars

\* the timer has ticked with two tasks in the runqueue and none current
C40_Witness ==
    /\ sched_call.op = "scheduler_tick"
    /\ current_task = NULL
    /\ runqueue # NULL
    /\ Cardinality(RingMembers(SchedState)) >= 2
    /\ counter = 0

\* the tasks that n consecutive schedule() calls make current, from state s
RECURSIVE Visits(_, _)
Visits(s, n) ==
    IF n = 0 THEN << >>
    ELSE LET s1 == schedule_body(s)
         IN  <<s1.current_task>> \o Visits(s1, n - 1)

\* C33: with N >= 1 tasks in the runqueue and the current task one of them,
\* N consecutive schedule() calls make every task of the runqueue current
\* exactly once and end at the task that was current at the start.
C33_RoundRobin ==
    (current_task # NULL /\ current_task \in RingMembers(SchedState))
    => LET ring == RingMembers(SchedState)
           N    == Cardinality(ring)
           v    == Visits(SchedState, N)
       IN  /\ {v[i] : i \in 1..N} = ring
           /\ \A i, j \in 1..N : v[i] = v[j] => i = j
           /\ v[N] = current_task

\* three tasks were created and schedule() was called once to start and
\* three times more: the task started with is current again
C33_Witness ==
    /\ scen.phase = "sched"
    /\ scen.exact
    /\ Len(scen.order) = 3
    /\ scen.n = 4
    /\ sched_call.op = "schedule"
    /\ current_task = runqueue
    /\ Cardinality(RingMembers(SchedState)) = 3
    /\ Visits(SchedState, 3)[3] = current_task

\* C38: current_task, the runqueue head and the next and prev links of
\* every runqueue member refer only to TCBs that are allocated, never to one
\* kill_task has freed.
C38_NoFreedReachable ==
    /\ current_task \in heap_tcb \cup {NULL}
    /\ runqueue \in heap_tcb \cup {NULL}
    /\ \A t \in RingMembers(SchedState) :
        /\ t \in heap_tcb
        /\ tasks[t].next \in heap_tcb \cup {NULL}
        /\ tasks[t].prev \in heap_tcb \cup {NULL}

\* kill_task has just freed one task of a runqueue of three, while another
\* task is current
C38_Witness ==
    /\ sched_call.op = "kill_task"
    /\ sched_call.ret = 0
    /\ sched_call.killed.state = TASK_ZOMBIE
    /\ current_task \in RingMembers(SchedState)
    /\ Cardinality(RingMembers(SchedState)) = 2
    /\ Cardinality(heap_tcb) = 2
    /\ next_pid > 3

\* C39: remove_task_from_runqueue never follows a null next or prev link;
\* a task_exit call made by a task that has exited before leaves the
\* runqueue as it is.
C39_RemoveOnlyLinked ==
    [][ExitStep
       => /\ ~task_exit_body(SchedState, sched_call'.arg).nullderef
          /\ ~halted'
          /\ tasks[current_task].state = TASK_ZOMBIE
             => /\ runqueue' = runqueue
                /\ RingSeq(SchedState)' = RingSeq(SchedState)]_vars

(***************************************************************************)
(* Further properties of the physical frame allocator                      *)
(***************************************************************************)
\* C36: pmm_alloc_page never returns an address at or beyond
\* total_pages * 4096, whether total_pages is a multiple of 8 or not: the
\* padding bits of the last bitmap byte stay set, and neither the call made
\* last nor the next call hands one out.
C36_AllocInRange ==
    /\ \A f \in BitmapBits(PmmState) \ Frames(PmmState) : FrameBit(PmmState, f)
    /\ (pmm_call.op = "alloc" /\ pmm_call.ret # NULL)
       => pmm_call.ret < total_pages * PAGE_SIZE
    /\ pmm_alloc_page_body(PmmState).ret < total_pages * PAGE_SIZE
       \/ total_pages = 0

\* the last frame of a RAM whose page count is not a multiple of 8 was
\* handed out, and the next call fails although padding bits follow it
C36_Witness ==
    /\ total_pages % 8 # 0
    /\ pmm_call.op = "alloc"
    /\ pmm_call.ret = (total_pages - 1) * PAGE_SIZE
    /\ BitmapBits(PmmState) \ Frames(PmmState) # {}
    /\ pmm_alloc_page_body(PmmState).ret = NULL

\* C37 as stated: whenever pmm_get_free_kb() is greater than 0, the next
\* pmm_alloc_page call succeeds.
C37_FreeKbAllocatable ==
    pmm_get_free_kb(PmmState) > 0 => pmm_alloc_page_body(PmmState).ret # NULL

\* C37: the next pmm_alloc_page call succeeds exactly when a frame at or above
\* the 2 MiB reservation is free, which is when pmm_get_free_kb() exceeds 4
\* times the number of free frames below the reservation; pmm_get_used_kb()
\* is then below pmm_get_total_kb().
C37_FreeHighAllocatable ==
    /\ pmm_alloc_page_body(PmmState).ret # NULL <=> FreeHigh(PmmState) # {}
    /\ FreeHigh(PmmState) # {}
       <=> pmm_get_free_kb(PmmState) > 4 * Cardinality(FreeLow(PmmState))
    /\ FreeHigh(PmmState) # {}
       => pmm_get_used_kb(PmmState) < pmm_get_total_kb(PmmState)

\* free memory is reported, part of it below the reservation, and the
\* allocation that was just made took the only free frame above it
C37_Witness ==
    /\ pmm_call.op = "alloc"
    /\ pmm_call.ret # NULL
    /\ FreeHigh(pmm_call.pre) # {}
    /\ pmm_get_free_kb(pmm_call.pre) > 4 * Cardinality(FreeLow(pmm_call.pre))
    /\ FreeLow(PmmState) # {}
    /\ FreeHigh(PmmState) = {}
    /\ pmm_get_free_kb(PmmState) > 0

(***************************************************************************)
(* Interleaved allocations; the lock after a return                        *)
(***************************************************************************)
\* both contexts have returned from the two pmm_alloc_page calls of a pair
\* (the second was entered while the first was in progress) and neither has
\* made another call since
BothReturned ==
    \A c \in Contexts :
        /\ pmm_ctx[c].pc = "idle"
        /\ pmm_ctx[c].op = "alloc"
        /\ pmm_ctx[c].pair = "yes"

\* C34: when two pmm_alloc_page calls interleave and both succeed, they
\* return different frames, and when both have returned used_pages is 2
\* more than it was when the first of them was entered.
C34_InterleavedAllocs ==
    (BothReturned /\ \A c \in Contexts : pmm_ctx[c].ret # NULL) =>
        /\ pmm_ctx[1].ret # pmm_ctx[2].ret
        /\ pmm_ctx[1].base = pmm_ctx[2].base
        /\ used_pages = pmm_ctx[1].base + 2
        /\ \A c \in Contexts : FrameBit(PmmState, pmm_ctx[c].ret \div PAGE_SIZE)

\* two interleaved calls have both succeeded: the second had entered while
\* the first was in progress, and each took one of the two free frames
C34_Witness ==
    /\ BothReturned
    /\ pmm_ctx[1].ret = LOW_MEM_LIMIT + PAGE_SIZE
    /\ pmm_ctx[2].ret = LOW_MEM_LIMIT
    /\ used_pages = pmm_ctx[1].base + 2
    /\ pmm_lock = 0

\* C35: pmm_lock is never left held.  The lock is held only by a context
\* that is between the spinlock_acquire and the spinlock_release of
\* pmm_mark_free, pmm_mark_used, pmm_free_page or pmm_alloc_page; a context
\* that has returned, from the success or from the failure path, does not
\* hold it, and with every context returned the lock is free.
C35_LockNotLeftHeld ==
    /\ pmm_lock # 0 =>
          /\ pmm_lock \in Contexts
          /\ pmm_ctx[pmm_lock].pc \in {"body", "commit", "release"}
          /\ pmm_ctx[pmm_lock].op
                \in {"mark_free", "mark_used", "free_page", "alloc"}
    /\ (\A c \in Contexts : pmm_ctx[c].pc = "idle") => pmm_lock = 0
    /\ \A c \in Contexts :
          (pmm_ctx[c].pc = "acquire" /\ pmm_ctx[Other(c)].pc = "idle")
             => pmm_lock = 0

\* a pmm_alloc_page call has returned from its failure path, and the other
\* context has acquired the lock after it
C35_Witness ==
    /\ pmm_ctx[1].pc = "idle"
    /\ pmm_ctx[1].op = "alloc"
    /\ pmm_ctx[1].ret = NULL
    /\ total_pages > LowFrames
    /\ pmm_ctx[2].op = "alloc"
    /\ pmm_ctx[2].pc = "body"
    /\ pmm_lock = 2

C31_UnmapWitness ==
    /\ vmm_call.op = "get_phys"
    /\ vmm_call.ret = NONE
    /\ vmm_leaf_table(page_tables, vmm_call.virt) # NONE
    /\ \E w \in VPages \ {vmm_call.virt} :
          vmm_leaf_table(page_tables, w) = vmm_leaf_table(page_tables, vmm_call.virt)
          /\ vmm_get_phys_body(page_tables, w) # NONE

====
